---- MODULE Spec2Model ----
(***************************************************************************)
(* Dual-hash change detection of the Google Groups settings audit script:  *)
(* the hash pair of one settings object, the differ over hash maps, the    *)
(* ScriptProperties store of the hash map and the listGroupSettings run.   *)
(***************************************************************************)
EXTENDS Integers, Sequences, FiniteSets, TLC

VARIABLES
    settingsA,      \* first settings object handed to the hasher
    settingsB,      \* second settings object handed to the hasher
    pairA,          \* hash pair computed for settingsA (NoPair before the call)
    pairB,          \* hash pair computed for settingsB
    hasher,         \* which copy of the hasher computed the pairs
    props,          \* ScriptProperties: the two properties a hash map is kept under
    storeModule,    \* the file whose store/loadGroupSettingsHashMap is the one in effect
    lastSaved,      \* the hash map the latest store call was handed, and by which function
    newHashMap,     \* the freshly computed hash map
    previousHashMap,\* the hash map loaded as the baseline of the comparison
    changed,        \* the lines logHashDifferences logged
    changedEmails,  \* what getGroupsWithHashChanges returned
    diffPc,         \* the differ harness: "input", "saved", "diffed"; "off" elsewhere
    build,          \* which copy of listGroupSettings and of the fetchers is deployed
    logModule,      \* the file whose logHashDifferences is the one in effect
    api,            \* the settings the Groups Settings API holds for each group
    pc,             \* position of the run: "idle", "fetch", "list", "store", "report", "done"
    options,        \* the execution options of the run
    todo,           \* the emails fetchAllGroupSettings has still to fetch
    all,            \* the results fetchAllGroupSettings collected
    runHashMap,        \* the hash map fetchAllGroupSettings of part_007 holds in memory
    violations,     \* what filterGroupSettings returned in this run
    ioLog,          \* the loads, stores and comparisons of the hash map in this run
    baseline,       \* the stored hash map as the previous run left it
    runCount,       \* runs started so far
    outcome,        \* how the latest run ended: "returned", "threw"; "" before
    testFile,       \* which copy of testHashSystem runs: "part_010", "app.js"
    sampleGroups,   \* the sample groups of testHashSystem
    modifiedGroups, \* the sample groups with one setting of one group changed
    testPc,         \* position of testHashSystem: "start", "saved", "done", "threw"; "off" elsewhere
    storageFailed,  \* whether a setProperty of the hash map threw in this run
    invPc,          \* overlap harness: the position of each invocation of fetchAllGroupSettings
    invTodo,        \* the emails each invocation has still to fetch
    invMap,         \* the hash map each invocation loaded and holds in memory
    invSeen,        \* the stored property as each invocation last read or wrote it
    input,          \* the value handed to the hasher as settings, of any type
    inputResult,    \* what the hasher did with input: whether it threw, its projections and pair
    sheetModule,    \* the file whose saveToSheet is the one in effect
    hashesColumns,  \* HEADERS.HASHES.length in the build in effect
    sheetRows,      \* the data rows of the Group Hashes sheet, below its header row
    clock,          \* the time new Date() reads, in ticks
    sheetBefore,    \* the data rows as they were when the last saveToSheet was called
    sheetArg,       \* the hash map the last saveToSheet was called with
    sheetRewrite,   \* whether an earlier saveToSheet had written rows when the last one was called
    sheetWrites,    \* the number of saveToSheet calls that wrote rows
    sheetPc,        \* off, idle, or saved / threw right after a saveToSheet
    steady,         \* no settings changed upstream, no fetch or store failed and every run had the default options, since the first run
    listModule,     \* the file whose fetchAllGroupData is the one in effect
    bypassETag,     \* the bypassETag option of the call of fetchAllGroupData in hand
    storedDomainETag, \* DOMAIN_ETAGS[domain], "" when there is none
    etagBefore,     \* storedDomainETag when the call in hand began
    oldDomainETag,  \* oldDomainETag of the call in hand, "" for null
    pageToken,      \* the number of the page to fetch next, 0 when there is no token
    groups,         \* the groups the call in hand has collected
    listResult,     \* what the last call returned: its groups and whether every page was fetched
    listCalls,      \* the number of calls of fetchAllGroupData so far
    listPc,         \* off, idle, page or done
    updateModule,   \* the copy of updateGroupSettings that is the one in effect
    rowsModule,     \* the file whose getDiscrepancyRowsFromSheet is the one in effect
    reportRows,     \* the data rows of the sheet updateGroupSettings reads: email, key, expected, apply
    answer,         \* the button the user pressed in the confirmation prompt, "" when none was shown
    patched,        \* the PATCH requests sent: the email and the payload of each
    updatePc,       \* off, idle or done
    reportModule,   \* the file whose writeDetailReport is the one in effect
    runViolations,  \* the violations the last run of listGroupSettings found
    reportRuns,     \* the number of runs that reached their violation check
    reportPc,       \* off, idle or done
    benchmarkModule, \* the copy of benchmark that is the one in effect
    cleanRunActive, \* whether the property CLEAN_RUN_ACTIVE is "true"
    cleanRun,       \* the cleanRun option of the invocation in hand
    cleanPc,        \* off, idle (no invocation executing) or running
    cleanOutcome,   \* how the last invocation ended: returned or threw
    cleanRuns,      \* the number of invocations of listGroupSettings so far
    sheetHasData,   \* whether the report sheet exists and holds data rows
    forceDeleted    \* whether getOrCreateSheet deleted an existing sheet while no invocation was executing

hashVars == <<settingsA, settingsB, pairA, pairB, hasher>>

storeVars == <<props, storeModule, lastSaved>>

diffVars == <<newHashMap, previousHashMap, changed, changedEmails, diffPc>>

runVars ==
    <<build, logModule, api, pc, options, todo, all, runHashMap, violations, ioLog,
      baseline, runCount, outcome>>

testVars == <<testFile, sampleGroups, modifiedGroups, testPc>>

failVars == <<storageFailed>>

invVars == <<invPc, invTodo, invMap, invSeen>>

inputVars == <<input, inputResult>>

sheetVars == <<sheetModule, hashesColumns, sheetRows, clock, sheetBefore, sheetArg, sheetRewrite, sheetWrites, sheetPc>>

steadyVars == <<steady>>

listVars == <<listModule, bypassETag, storedDomainETag, etagBefore, oldDomainETag, pageToken, groups, listResult, listCalls, listPc>>

updateVars == <<updateModule, rowsModule, reportRows, answer, patched, updatePc>>

reportVars == <<reportModule, runViolations, reportRuns, reportPc>>

cleanVars == <<benchmarkModule, cleanRunActive, cleanRun, cleanPc, cleanOutcome, cleanRuns, sheetHasData, forceDeleted>>

vars == <<hashVars, storeVars, diffVars, runVars, testVars, failVars, invVars, inputVars, sheetVars, steadyVars, listVars, updateVars, reportVars, cleanVars>>

-----------------------------------------------------------------------------
(* Bounds of the model.                                                    *)

MaxObjKeys == 3     \* most keys a settings object drawn for the hasher holds
MaxEntities == 11   \* most entities of a hash map handed to the differ
MaxRuns == 3        \* most runs of listGroupSettings in one behaviour
MaxClock == 3       \* latest tick of the clock
MaxWrites == 3      \* most saveToSheet calls that write rows
MaxPages == 2       \* most pages of one group listing
MaxLists == 2       \* most calls of fetchAllGroupData in one behaviour
MaxRows == 2        \* most data rows of the report sheet
MaxReports == 2     \* most runs that write the Detail Report in one behaviour
MaxCleanRuns == 3   \* most invocations of listGroupSettings with the cleanRun option in play

-----------------------------------------------------------------------------
(* JavaScript values and objects.  A value is a record of its type and its *)
(* text; an object is the sequence of its own properties in insertion      *)
(* order, which is the order Object.keys, the spread and JSON.stringify    *)
(* walk.                                                                   *)

Str(s) == [t |-> "string", s |-> s]
Null == [t |-> "null", s |-> "null"]
Undefined == [t |-> "undefined", s |-> "undefined"]

ObjectKeys(o) == [i \in 1..Len(o) |-> o[i].k]

KeySet(o) == {o[i].k : i \in 1..Len(o)}

\* o[k]: the value of own property k, undefined when there is none.
Get(o, k) ==
    IF k \in KeySet(o)
    THEN o[CHOOSE i \in 1..Len(o) : o[i].k = k].v
    ELSE Undefined

\* o[k] = v: in place when k is a property already, appended otherwise.
Put(o, k, v) ==
    IF k \in KeySet(o)
    THEN [i \in 1..Len(o) |-> IF o[i].k = k THEN [k |-> k, v |-> v] ELSE o[i]]
    ELSE Append(o, [k |-> k, v |-> v])

\* delete o[k]
Delete(o, k) == SelectSeq(o, LAMBDA p : p.k # k)

NullishKeepsMissing(a, b) == a

\* a ?? b
Nullish(a, b) == IF a.t \in {"null", "undefined"} THEN b ELSE a

\* The order Array.prototype.sort() puts the property names of the model in
\* (UTF-16 code unit order).
KeyOrder ==
    << "0", "etag", "name", "whoCanContactOwner", "whoCanInvite", "whoCanJoin",
       "whoCanModerateContent", "whoCanPostMessage", "whoCanViewConversations",
       "whoCanViewGroup", "whoCanViewMembership" >>

SortKeysUnsorted(keys) == keys

\* keys.sort() of a sequence of distinct property names.
SortKeys(keys) ==
    SelectSeq(KeyOrder, LAMBDA k : \E i \in 1..Len(keys) : keys[i] = k)

JsonValueUnquoted(v) == v.s

\* JSON.stringify of a value.
JsonValue(v) ==
    CASE v.t = "string" -> "\"" \o v.s \o "\""
      [] v.t = "null" -> "null"
      [] OTHER -> v.s

RECURSIVE JsonMembers(_)
JsonMembers(o) ==
    IF Len(o) = 0 THEN ""
    ELSE LET rest == JsonMembers(Tail(o))
             head == "\"" \o Head(o).k \o "\":" \o JsonValue(Head(o).v)
         IN  IF rest = "" THEN head ELSE head \o "," \o rest

\* JSON.stringify of an object: properties in insertion order, those whose
\* value is undefined left out.
JSONstringify(o) ==
    "{" \o JsonMembers(SelectSeq(o, LAMBDA p : p.v.t # "undefined")) \o "}"

\* Utilities.base64Encode(Utilities.computeDigest(SHA_1, text)): the digest is
\* taken as collision free, so it stands for the text it was computed from.
Sha1Base64(text) == "sha1(" \o text \o ")"

-----------------------------------------------------------------------------
(* The expected policy values; its keys are the tracked keys.              *)

UPDATED_SETTINGS ==
    << [k |-> "whoCanPostMessage", v |-> Str("ANYONE_CAN_POST")],
       [k |-> "whoCanViewMembership", v |-> Str("ALL_IN_DOMAIN_CAN_VIEW")],
       [k |-> "whoCanViewGroup", v |-> Str("ALL_IN_DOMAIN_CAN_VIEW")],
       [k |-> "whoCanModerateContent", v |-> Str("OWNERS_AND_MANAGERS")],
       [k |-> "whoCanInvite", v |-> Str("ALL_MANAGERS_CAN_INVITE")],
       [k |-> "whoCanJoin", v |-> Str("CAN_REQUEST_TO_JOIN")],
       [k |-> "whoCanContactOwner", v |-> Str("ANYONE_CAN_CONTACT")],
       [k |-> "whoCanViewConversations", v |-> Str("ALL_IN_DOMAIN_CAN_VIEW")] >>

TrackedKeys == KeySet(UPDATED_SETTINGS)

-----------------------------------------------------------------------------
(* The hash pair of one settings object (utils.js).                        *)

businessDataAllKeys(settings) ==
    LET keys == SortKeys(ObjectKeys(settings))
    IN  [i \in 1..Len(keys) |-> [k |-> keys[i], v |-> Nullish(Get(settings, keys[i]), Null)]]

\* keysToTrack.forEach(k => (businessData[k] = settings[k] ?? null))
businessData(settings) ==
    LET keysToTrack == SortKeys(ObjectKeys(UPDATED_SETTINGS))
    IN  [i \in 1..Len(keysToTrack) |->
            [k |-> keysToTrack[i], v |-> Nullish(Get(settings, keysToTrack[i]), Null)]]

normalizedTrackedOnly(settings) ==
    LET keys == SortKeys(SelectSeq(ObjectKeys(settings),
                                   LAMBDA k : \E i \in 1..Len(UPDATED_SETTINGS) :
                                                 UPDATED_SETTINGS[i].k = k))
    IN  [i \in 1..Len(keys) |-> [k |-> keys[i], v |-> Get(settings, keys[i])]]

normalizedKeepEtag(settings) ==
    LET keys == SortKeys(ObjectKeys(settings))
    IN  [i \in 1..Len(keys) |-> [k |-> keys[i], v |-> Get(settings, keys[i])]]

\* fullData = {...settings}; delete fullData.etag; the rest re-emitted sorted
normalized(settings) ==
    LET fullData == Delete(settings, "etag")
        keys == SortKeys(ObjectKeys(fullData))
    IN  [i \in 1..Len(keys) |-> [k |-> keys[i], v |-> Get(fullData, keys[i])]]

generateGroupSettingsHashPair(settings) ==
    [ businessHash |-> Sha1Base64(JSONstringify(businessData(settings))),
      fullHash |-> Sha1Base64(JSONstringify(normalized(settings))) ]

(* The same computation as config.js writes it.                            *)

relevant(settings) ==
    LET keysToTrack == SortKeys(ObjectKeys(UPDATED_SETTINGS))
    IN  [i \in 1..Len(keysToTrack) |->
            [k |-> keysToTrack[i], v |-> Nullish(Get(settings, keysToTrack[i]), Null)]]

computeDualGroupSettingsHash(settings) ==
    LET cloned == Delete(settings, "etag")
        sortedKeys == SortKeys(ObjectKeys(cloned))
        normalizedCloned ==
            [i \in 1..Len(sortedKeys) |-> [k |-> sortedKeys[i], v |-> Get(cloned, sortedKeys[i])]]
    IN  [ businessHash |-> Sha1Base64(JSONstringify(relevant(settings))),
          fullHash |-> Sha1Base64(JSONstringify(normalizedCloned)) ]

-----------------------------------------------------------------------------
(* Hash maps and their store.  A hash map is an object from the group      *)
(* email to its hash pair; a pair read off an empty object has undefined   *)
(* hashes.  A property of ScriptProperties is absent or holds the JSON     *)
(* text of a hash map: its members in order, each with the members of its  *)
(* pair that JSON.stringify kept.                                          *)

UndefinedHash == "undefined"

EmptyObject == [businessHash |-> UndefinedHash, fullHash |-> UndefinedHash]

HasKey(o, k) == k \in KeySet(o)

\* oldMap[email] || {}
GetOrEmpty(o, k) == IF HasKey(o, k) THEN Get(o, k) ELSE EmptyObject

Absent == [present |-> FALSE, members |-> << >>]

PairMembersBusinessOnly(pair) ==
    SelectSeq(<< [k |-> "businessHash", v |-> pair.businessHash] >>,
              LAMBDA m : m.v # UndefinedHash)

PairMembers(pair) ==
    SelectSeq(<< [k |-> "businessHash", v |-> pair.businessHash],
                 [k |-> "fullHash", v |-> pair.fullHash] >>,
              LAMBDA m : m.v # UndefinedHash)

\* JSON.stringify(hashMap)
JSONstringifyMap(hashMap) ==
    [ present |-> TRUE,
      members |-> [i \in 1..Len(hashMap) |->
                      [k |-> hashMap[i].k, v |-> PairMembers(hashMap[i].v)]] ]

MemberOr(members, name) ==
    IF \E i \in 1..Len(members) : members[i].k = name
    THEN members[CHOOSE i \in 1..Len(members) : members[i].k = name].v
    ELSE UndefinedHash

\* raw ? JSON.parse(raw) : {}
JSONparseOrEmpty(raw) ==
    IF raw.present
    THEN [i \in 1..Len(raw.members) |->
            [k |-> raw.members[i].k,
             v |-> [businessHash |-> MemberOr(raw.members[i].v, "businessHash"),
                    fullHash |-> MemberOr(raw.members[i].v, "fullHash")]]]
    ELSE << >>

\* The property the store and the load of the module in effect use.
HashMapKey ==
    IF storeModule = "utils.js" THEN "GROUP_DUAL_HASH_MAP" ELSE "GROUP_SETTINGS_HASH_MAP"

storeGroupSettingsHashMapMerging(hashMap) ==
    [props EXCEPT ![HashMapKey] =
        JSONstringifyMap(
            SelectSeq(JSONparseOrEmpty(props[HashMapKey]), LAMBDA e : ~HasKey(hashMap, e.k))
            \o hashMap)]

\* props after storeGroupSettingsHashMap(hashMap)
storeGroupSettingsHashMap(hashMap) ==
    [props EXCEPT ![HashMapKey] = JSONstringifyMap(hashMap)]

loadGroupSettingsHashMap == JSONparseOrEmpty(props[HashMapKey])

LoadResultOrNull(raw) ==
    IF raw.present
    THEN [t |-> "object", o |-> JSONparseOrEmpty(raw)]
    ELSE [t |-> "null", o |-> << >>]

\* The value of raw ? JSON.parse(raw) : {} with its type: raw is null when
\* the property is absent, and otherwise the JSON text of a stored map.
LoadResult(raw) ==
    IF raw.present
    THEN [t |-> "object", o |-> JSONparseOrEmpty(raw)]
    ELSE [t |-> "object", o |-> << >>]

NoProps ==
    [GROUP_DUAL_HASH_MAP |-> Absent, GROUP_SETTINGS_HASH_MAP |-> Absent]

StoreModules == {"utils.js", "storage.js"}

NothingSaved == [made |-> FALSE, by |-> "", map |-> << >>]

Saved(by, hashMap) == [made |-> TRUE, by |-> by, map |-> hashMap]

-----------------------------------------------------------------------------
(* The differ.                                                             *)

LogLimit == 10

HashesDifferBusinessOnly(newHashes, old) ==
    newHashes.businessHash # old.businessHash

\* newHashes.businessHash !== old.businessHash || newHashes.fullHash !== old.fullHash
HashesDiffer(newHashes, old) ==
    newHashes.businessHash # old.businessHash \/ newHashes.fullHash # old.fullHash

GroupsWithHashChangesBothMaps(newMap, oldMap) ==
    LET hits == SelectSeq(newMap, LAMBDA e : HashesDiffer(e.v, GetOrEmpty(oldMap, e.k)))
        removed == SelectSeq(oldMap, LAMBDA e : ~HasKey(newMap, e.k))
    IN  [i \in 1..Len(hits) |-> hits[i].k] \o [i \in 1..Len(removed) |-> removed[i].k]

\* getGroupsWithHashChanges(newMap) of utils.js, the old map being oldMap
GroupsWithHashChanges(newMap, oldMap) ==
    LET hits == SelectSeq(newMap, LAMBDA e : HashesDiffer(e.v, GetOrEmpty(oldMap, e.k)))
    IN  [i \in 1..Len(hits) |-> hits[i].k]

getGroupsWithHashChanges(newMap) ==
    GroupsWithHashChanges(newMap, loadGroupSettingsHashMap)

TagsSwapped(newHashes, old) ==
    IF old.businessHash # newHashes.businessHash /\ old.fullHash # newHashes.fullHash
    THEN "businessHash, fullHash"
    ELSE IF old.businessHash # newHashes.businessHash THEN "fullHash"
    ELSE IF old.fullHash # newHashes.fullHash THEN "businessHash"
    ELSE ""

\* tags.join(', ') of one entry present in both maps ("" when nothing changed)
Tags(newHashes, old) ==
    IF old.businessHash # newHashes.businessHash /\ old.fullHash # newHashes.fullHash
    THEN "businessHash, fullHash"
    ELSE IF old.businessHash # newHashes.businessHash THEN "businessHash"
    ELSE IF old.fullHash # newHashes.fullHash THEN "fullHash"
    ELSE ""

LogEntryNoNewTag(lines, e, oldHashMap) ==
    IF Tags(e.v, GetOrEmpty(oldHashMap, e.k)) # ""
    THEN Append(lines, [email |-> e.k, tag |-> Tags(e.v, GetOrEmpty(oldHashMap, e.k))])
    ELSE lines

\* One turn of the loop of logHashDifferences: the lines logged so far with
\* the line of entry e added, if it has one.
LogEntry(lines, e, oldHashMap) ==
    IF ~HasKey(oldHashMap, e.k)
    THEN Append(lines, [email |-> e.k, tag |-> "new"])
    ELSE IF Tags(e.v, Get(oldHashMap, e.k)) # ""
    THEN Append(lines, [email |-> e.k, tag |-> Tags(e.v, Get(oldHashMap, e.k))])
    ELSE lines

RECURSIVE LogLoop(_, _, _)
LogLoop(entries, oldHashMap, lines) ==
    IF Len(entries) = 0 THEN lines
    ELSE LET next == LogEntry(lines, Head(entries), oldHashMap)
         IN  IF Len(next) >= LogLimit THEN next
             ELSE LogLoop(Tail(entries), oldHashMap, next)

\* the lines logHashDifferences(newHashMap, oldHashMap) logs
logHashDifferences(newMap, oldHashMap) == LogLoop(newMap, oldHashMap, << >>)

-----------------------------------------------------------------------------
(* Settings objects handed to the hasher: what JSON.parse of a Groups      *)
(* Settings response can hold over four of its fields.                     *)

FieldValues ==
    [ whoCanJoin |-> {Str("CAN_REQUEST_TO_JOIN"), Str("null"), Null},
      whoCanPostMessage |-> {Str("ANYONE_CAN_POST"), Str("ALL_MEMBERS_CAN_POST")},
      etag |-> {Str("v1"), Str("v2")},
      name |-> {Str("x"), Str("y")} ]

FieldNames == DOMAIN FieldValues

Properties == UNION {{[k |-> f, v |-> x] : x \in FieldValues[f]} : f \in FieldNames}

SettingsObjects ==
    UNION { {o \in [1..n -> Properties] :
                \A i, j \in 1..n : i # j => o[i].k # o[j].k} : n \in 0..MaxObjKeys }

NoPair == [businessHash |-> "", fullHash |-> ""]

HashIdle ==
    /\ settingsA = << >>
    /\ settingsB = << >>
    /\ pairA = NoPair
    /\ pairB = NoPair
    /\ hasher = "off"

StoreIdle ==
    /\ props = NoProps
    /\ storeModule = "utils.js"
    /\ lastSaved = NothingSaved

DiffIdle ==
    /\ newHashMap = << >>
    /\ previousHashMap = << >>
    /\ changed = << >>
    /\ changedEmails = << >>
    /\ diffPc = "off"

EXECUTION_MODE ==
    [bypassETag |-> FALSE, bypassHash |-> FALSE, manual |-> FALSE, dryRun |-> FALSE,
     cleanRun |-> FALSE]

RunIdle ==
    /\ build = "core-app.js"
    /\ logModule = "logging.js"
    /\ api = << >>
    /\ pc = "off"
    /\ options = EXECUTION_MODE
    /\ todo = << >>
    /\ all = << >>
    /\ runHashMap = << >>
    /\ violations = << >>
    /\ ioLog = << >>
    /\ baseline = NoProps
    /\ runCount = 0
    /\ outcome = ""
    /\ storageFailed = FALSE

TestIdle ==
    /\ testFile = ""
    /\ sampleGroups = << >>
    /\ modifiedGroups = << >>
    /\ testPc = "off"

Invocations == {1, 2}

OverlapIdle ==
    /\ invPc = [p \in Invocations |-> "off"]
    /\ invTodo = [p \in Invocations |-> << >>]
    /\ invMap = [p \in Invocations |-> << >>]
    /\ invSeen = [p \in Invocations |-> Absent]

NoInput == [t |-> "undefined", s |-> "", o |-> << >>]

NoInputResult ==
    [done |-> FALSE, by |-> "", threw |-> FALSE, business |-> << >>, full |-> << >>,
     pair |-> NoPair]

InputIdle ==
    /\ input = NoInput
    /\ inputResult = NoInputResult

SheetIdle ==
    /\ sheetModule = "config.js"
    /\ hashesColumns = 4
    /\ sheetRows = << >>
    /\ clock = 0
    /\ sheetBefore = << >>
    /\ sheetArg = << >>
    /\ sheetRewrite = FALSE
    /\ sheetWrites = 0
    /\ sheetPc = "off"

SteadyIdle == steady = TRUE

NoListResult ==
    [returned |-> FALSE, groups |-> << >>, complete |-> FALSE, fallback |-> FALSE]

ListIdle ==
    /\ listModule = "core-group.js"
    /\ bypassETag = FALSE
    /\ storedDomainETag = ""
    /\ etagBefore = ""
    /\ oldDomainETag = ""
    /\ pageToken = 0
    /\ groups = << >>
    /\ listResult = NoListResult
    /\ listCalls = 0
    /\ listPc = "off"

UpdateIdle ==
    /\ updateModule = "core-app.js"
    /\ rowsModule = "core-app.js"
    /\ reportRows = << >>
    /\ answer = ""
    /\ patched = << >>
    /\ updatePc = "off"

ReportIdle ==
    /\ reportModule = "sheet.js"
    /\ runViolations = << >>
    /\ reportRuns = 0
    /\ reportPc = "off"

CleanIdle ==
    /\ benchmarkModule = "utils.js"
    /\ cleanRunActive = FALSE
    /\ cleanRun = FALSE
    /\ cleanPc = "off"
    /\ cleanOutcome = ""
    /\ cleanRuns = 0
    /\ sheetHasData = FALSE
    /\ forceDeleted = FALSE

InitHash ==
    /\ RunIdle
    /\ settingsA \in SettingsObjects
    /\ settingsB \in SettingsObjects
    /\ pairA = NoPair
    /\ pairB = NoPair
    /\ hasher = "none"
    /\ StoreIdle
    /\ DiffIdle
    /\ TestIdle
    /\ OverlapIdle
    /\ InputIdle
    /\ SheetIdle
    /\ SteadyIdle
    /\ ListIdle
    /\ UpdateIdle
    /\ ReportIdle
    /\ CleanIdle

\* utils.js hashes both objects.
HashWithUtils ==
    /\ hasher = "none"
    /\ pairA' = generateGroupSettingsHashPair(settingsA)
    /\ pairB' = generateGroupSettingsHashPair(settingsB)
    /\ hasher' = "generateGroupSettingsHashPair"
    /\ UNCHANGED <<settingsA, settingsB, storeVars, diffVars, runVars>>
    /\ UNCHANGED testVars
    /\ UNCHANGED failVars
    /\ UNCHANGED invVars
    /\ UNCHANGED inputVars
    /\ UNCHANGED sheetVars
    /\ UNCHANGED steadyVars
    /\ UNCHANGED listVars
    /\ UNCHANGED updateVars
    /\ UNCHANGED reportVars
    /\ UNCHANGED cleanVars

\* config.js hashes both objects.
HashWithConfig ==
    /\ hasher = "none"
    /\ pairA' = computeDualGroupSettingsHash(settingsA)
    /\ pairB' = computeDualGroupSettingsHash(settingsB)
    /\ hasher' = "computeDualGroupSettingsHash"
    /\ UNCHANGED <<settingsA, settingsB, storeVars, diffVars, runVars>>
    /\ UNCHANGED testVars
    /\ UNCHANGED failVars
    /\ UNCHANGED invVars
    /\ UNCHANGED inputVars
    /\ UNCHANGED sheetVars
    /\ UNCHANGED steadyVars
    /\ UNCHANGED listVars
    /\ UNCHANGED updateVars
    /\ UNCHANGED reportVars
    /\ UNCHANGED cleanVars

NextHash == HashWithUtils \/ HashWithConfig

SpecHash == InitHash /\ [][NextHash]_vars

-----------------------------------------------------------------------------
(* The run of listGroupSettings.  The repository holds several copies of   *)
(* it and of the fetchers it calls; build names the copy deployed:         *)
(*   "core-app.js"    listGroupSettings of core-app.js over the fetchers   *)
(*                    of core-group.js,                                    *)
(*   "part_004:719"   the copy at unnamed/part_004:719 over the fetchers   *)
(*                    of unnamed/part_007,                                 *)
(*   "part_004:1098"  the copy at unnamed/part_004:1098 over the same,     *)
(*   "part_004:1583"  the copy at unnamed/part_004:1583 over the fetchers  *)
(*                    of core-group.js.                                    *)
(* A run is a sequence of steps: the fetch of each group in turn, the      *)
(* comparison, the store, the violation check.                             *)

Builds == {"core-app.js", "part_004:719", "part_004:1098", "part_004:1583"}

UsesPart007(b) == b \in {"part_004:719", "part_004:1098"}

LogModules == {"logging.js", "part_003"}

CHECK_BUSINESS_HASH == TRUE

CHECK_FULL_HASH == TRUE

\* resolveGroupEmails()
GroupEmails == << "a@example.com", "b@example.com" >>

\* A group that follows the policy, as the Groups Settings API returns it.
Compliant ==
    << [k |-> "name", v |-> Str("x")] >> \o UPDATED_SETTINGS \o << [k |-> "etag", v |-> Str("v1")] >>

\* JSON.parse(contentText): what the API can hold for a group.
ApiSettings ==
    { Compliant,
      Put(Compliant, "whoCanJoin", Str("ALL_IN_DOMAIN_CAN_JOIN")),
      Put(Compliant, "name", Str("y")) }

\* res.getResponseCode() === 200 with a JSON body, or anything else
Responses == {"200", "error"}

\* setProperty writes the value, or throws "You have exceeded the property
\* storage quota".
Quota == {"ok", "exceeded"}

\* The options a run of the build can be started with.
RunOptions(b) ==
    IF b = "core-app.js"
    THEN {EXECUTION_MODE}
    ELSE {EXECUTION_MODE, [EXECUTION_MODE EXCEPT !.dryRun = TRUE]}

NoResult ==
    [email |-> "", settings |-> << >>, hasSettings |-> FALSE, unchanged |-> FALSE,
     error |-> FALSE, manual |-> FALSE, hasHashes |-> FALSE, hashes |-> NoPair]

\* { email, manual: true }
ManualResult(email) == [NoResult EXCEPT !.email = email, !.manual = TRUE]

\* { email, error: true }
ErrorResult(email) == [NoResult EXCEPT !.email = email, !.error = TRUE]

\* { email, settings: data, unchanged: true }
UnchangedResult(email, data) ==
    [NoResult EXCEPT !.email = email, !.settings = data, !.hasSettings = TRUE,
                     !.unchanged = TRUE]

\* { email, settings: data, hashes: { businessHash, fullHash } }
ChangedResult(email, data, pair) ==
    [NoResult EXCEPT !.email = email, !.settings = data, !.hasSettings = TRUE,
                     !.hasHashes = TRUE, !.hashes = pair]

\* skip of fetchGroupSettings in core-group.js
skipCoreGroup(pair, old) ==
    /\ (IF CHECK_BUSINESS_HASH THEN pair.businessHash = old.businessHash ELSE TRUE)
    /\ (IF CHECK_FULL_HASH THEN pair.fullHash = old.fullHash ELSE TRUE)

\* skip of fetchGroupSettings in part_007
skipPart007(pair, old, bypassHash) ==
    /\ ~bypassHash
    /\ (IF CHECK_BUSINESS_HASH THEN pair.businessHash = old.businessHash ELSE TRUE)
    /\ (IF CHECK_FULL_HASH THEN pair.fullHash = old.fullHash ELSE TRUE)

\* all.filter(r => r.settings)
entriesWithSettings == SelectSeq(all, LAMBDA r : r.hasSettings)

\* entriesWithSettings.filter(r => r.hashes)
validForHashing == SelectSeq(entriesWithSettings, LAMBDA r : r.hasHashes)

RECURSIVE generateGroupSettingsHashMap(_)
generateGroupSettingsHashMap(entries) ==
    IF Len(entries) = 0 THEN << >>
    ELSE LET e == entries[Len(entries)]
             hashMap == generateGroupSettingsHashMap(SubSeq(entries, 1, Len(entries) - 1))
         IN  IF e.email # "" /\ e.hasSettings
             THEN Put(hashMap, e.email, generateGroupSettingsHashPair(e.settings))
             ELSE hashMap

RECURSIVE computeDualHashMap(_)
computeDualHashMap(entries) ==
    IF Len(entries) = 0 THEN << >>
    ELSE LET e == entries[Len(entries)]
             hashMap == computeDualHashMap(SubSeq(entries, 1, Len(entries) - 1))
         IN  IF e.email = "" \/ ~e.hasSettings
             THEN hashMap
             ELSE Put(hashMap, e.email, computeDualGroupSettingsHash(e.settings))

\* props after saveDualHashMap(hashMap)
saveDualHashMap(hashMap) ==
    [props EXCEPT !["GROUP_DUAL_HASH_MAP"] = JSONstringifyMap(hashMap)]

\* The discrepancies filterGroupSettings pushes for one entry.
Discrepancies(entry) ==
    IF entry.email = "" \/ entry.unchanged \/ entry.error THEN << >>
    ELSE LET hits == SelectSeq(UPDATED_SETTINGS,
                               LAMBDA p : Get(entry.settings, p.k) # p.v)
         IN  [i \in 1..Len(hits) |->
                [email |-> entry.email,
                 key |-> hits[i].k,
                 expected |-> hits[i].v,
                 actual |-> Nullish(Get(entry.settings, hits[i].k), Str("Not Found")),
                 hash |-> generateGroupSettingsHashPair(entry.settings).businessHash]]

RECURSIVE filterGroupSettings(_)
filterGroupSettings(groupSettingsData) ==
    IF Len(groupSettingsData) = 0 THEN << >>
    ELSE Discrepancies(Head(groupSettingsData)) \o filterGroupSettings(Tail(groupSettingsData))

InitRun ==
    /\ HashIdle
    /\ DiffIdle
    /\ props = NoProps
    /\ storeModule \in StoreModules
    /\ lastSaved = NothingSaved
    /\ build \in Builds
    /\ logModule \in (IF build = "core-app.js" THEN LogModules ELSE {"logging.js"})
    /\ api \in [{GroupEmails[i] : i \in 1..Len(GroupEmails)} -> ApiSettings]
    /\ pc = "idle"
    /\ options = EXECUTION_MODE
    /\ todo = << >>
    /\ all = << >>
    /\ runHashMap = << >>
    /\ violations = << >>
    /\ ioLog = << >>
    /\ baseline = NoProps
    /\ runCount = 0
    /\ outcome = ""
    /\ TestIdle
    /\ storageFailed = FALSE
    /\ OverlapIdle
    /\ InputIdle
    /\ SheetIdle
    /\ SteadyIdle
    /\ ListIdle
    /\ UpdateIdle
    /\ ReportIdle
    /\ CleanIdle

\* listGroupSettings is called: up to the first fetch.  fetchAllGroupSettings
\* of part_007 loads the stored map here, once for all groups.
StartRun ==
    /\ pc \in {"idle", "done"}
    /\ runCount < MaxRuns
    /\ \E o \in RunOptions(build) : options' = o
    /\ runCount' = runCount + 1
    /\ baseline' = props
    /\ todo' = GroupEmails
    /\ all' = << >>
    /\ violations' = << >>
    /\ outcome' = ""
    /\ newHashMap' = << >>
    /\ previousHashMap' = << >>
    /\ changed' = << >>
    /\ changedEmails' = << >>
    /\ IF UsesPart007(build)
       THEN runHashMap' = loadGroupSettingsHashMap /\ ioLog' = << "load" >>
       ELSE runHashMap' = << >> /\ ioLog' = << >>
    /\ pc' = "fetch"
    /\ UNCHANGED <<hashVars, storeVars, diffPc, build, logModule, api>>
    /\ UNCHANGED testVars
    /\ storageFailed' = FALSE
    /\ UNCHANGED invVars
    /\ UNCHANGED inputVars
    /\ UNCHANGED sheetVars
    /\ steady' = (steady /\ options' = EXECUTION_MODE)
    /\ UNCHANGED listVars
    /\ UNCHANGED updateVars
    /\ UNCHANGED reportVars
    /\ UNCHANGED cleanVars

\* fetchGroupSettings of core-group.js for the next email: it loads the
\* stored map, and stores it with the group's pair put in when a hash differs.
\* The store is inside its try: when setProperty throws, the catch returns
\* { email, error: true }.
FetchCoreGroup ==
    /\ pc = "fetch"
    /\ ~UsesPart007(build)
    /\ todo # << >>
    /\ \E status \in Responses : \E quota \in Quota :
         LET email == Head(todo)
             data == api[email]
             pair == generateGroupSettingsHashPair(data)
             hashMap == loadGroupSettingsHashMap
             old == GetOrEmpty(hashMap, email)
             stored == Put(hashMap, email, pair)
         IN  IF options.manual
             THEN /\ all' = Append(all, ManualResult(email))
                  /\ UNCHANGED <<props, lastSaved, ioLog, storageFailed>>
             ELSE IF status # "200"
             THEN /\ all' = Append(all, ErrorResult(email))
                  /\ UNCHANGED <<props, lastSaved, ioLog, storageFailed>>
             ELSE IF skipCoreGroup(pair, old)
             THEN /\ all' = Append(all, UnchangedResult(email, data))
                  /\ ioLog' = Append(ioLog, "load")
                  /\ UNCHANGED <<props, lastSaved, storageFailed>>
             ELSE IF quota = "exceeded"
             THEN /\ all' = Append(all, ErrorResult(email))
                  /\ ioLog' = Append(ioLog, "load")
                  /\ storageFailed' = TRUE
                  /\ UNCHANGED <<props, lastSaved>>
             ELSE /\ props' = storeGroupSettingsHashMap(stored)
                  /\ lastSaved' = Saved("fetchGroupSettings", stored)
                  /\ ioLog' = ioLog \o << "load", "store" >>
                  /\ all' = Append(all, ChangedResult(email, data, pair))
                  /\ UNCHANGED storageFailed
    /\ todo' = Tail(todo)
    /\ pc' = IF Tail(todo) = << >> THEN "list" ELSE "fetch"
    /\ UNCHANGED <<hashVars, diffVars, storeModule, build, logModule, api, options,
                   runHashMap, violations, baseline, runCount, outcome>>
    /\ UNCHANGED testVars
    /\ UNCHANGED invVars
    /\ UNCHANGED inputVars
    /\ UNCHANGED sheetVars
    /\ steady' = (steady /\ all'[Len(all')].error = FALSE /\ ~storageFailed')
    /\ UNCHANGED listVars
    /\ UNCHANGED updateVars
    /\ UNCHANGED reportVars
    /\ UNCHANGED cleanVars

\* fetchGroupSettings of part_007 for the next email, over the map
\* fetchAllGroupSettings holds in memory.
FetchPart007 ==
    /\ pc = "fetch"
    /\ UsesPart007(build)
    /\ todo # << >>
    /\ \E status \in Responses :
         LET email == Head(todo)
             data == api[email]
             pair == generateGroupSettingsHashPair(data)
             old == GetOrEmpty(runHashMap, email)
         IN  IF options.manual
             THEN /\ all' = Append(all, ManualResult(email))
                  /\ UNCHANGED runHashMap
             ELSE IF status # "200"
             THEN /\ all' = Append(all, ErrorResult(email))
                  /\ UNCHANGED runHashMap
             ELSE IF skipPart007(pair, old, options.bypassHash)
             THEN /\ all' = Append(all, UnchangedResult(email, data))
                  /\ UNCHANGED runHashMap
             ELSE /\ runHashMap' = Put(runHashMap, email, pair)
                  /\ all' = Append(all, ChangedResult(email, data, pair))
    /\ todo' = Tail(todo)
    /\ UNCHANGED <<hashVars, diffVars, storeVars, build, logModule, api, pc, options,
                   violations, ioLog, baseline, runCount, outcome>>
    /\ UNCHANGED testVars
    /\ UNCHANGED failVars
    /\ UNCHANGED invVars
    /\ UNCHANGED inputVars
    /\ UNCHANGED sheetVars
    /\ steady' = (steady /\ all'[Len(all')].error = FALSE)
    /\ UNCHANGED listVars
    /\ UNCHANGED updateVars
    /\ UNCHANGED reportVars
    /\ UNCHANGED cleanVars

\* The end of fetchAllGroupSettings of part_007: the map in memory is stored.
\* The store is outside every try of the run: when setProperty throws, the
\* exception leaves listGroupSettings (benchmark of utils.js turns it into
\* its error field, the other copies of benchmark let it pass).
FetchAllStore ==
    /\ pc = "fetch"
    /\ UsesPart007(build)
    /\ todo = << >>
    /\ \E quota \in Quota :
         IF quota = "exceeded"
         THEN /\ storageFailed' = TRUE
              /\ pc' = "done"
              /\ outcome' = "threw"
              /\ UNCHANGED <<props, lastSaved, ioLog>>
         ELSE /\ props' = storeGroupSettingsHashMap(runHashMap)
              /\ lastSaved' = Saved("fetchAllGroupSettings", runHashMap)
              /\ ioLog' = Append(ioLog, "store")
              /\ pc' = "list"
              /\ UNCHANGED <<outcome, storageFailed>>
    /\ UNCHANGED <<hashVars, diffVars, storeModule, build, logModule, api, options, todo,
                   all, runHashMap, violations, baseline, runCount>>
    /\ UNCHANGED testVars
    /\ UNCHANGED invVars
    /\ UNCHANGED inputVars
    /\ UNCHANGED sheetVars
    /\ steady' = (steady /\ ~storageFailed')
    /\ UNCHANGED listVars
    /\ UNCHANGED updateVars
    /\ UNCHANGED reportVars
    /\ UNCHANGED cleanVars

\* listGroupSettings of core-app.js from the hash map to logHashDifferences,
\* which it calls with one argument: the function of logging.js then reads
\* oldHashMap[email] off undefined and throws as soon as the new map has an
\* entry, and the function of part_003 loads the stored map itself (its
\* output is debug text per entry, not the list of changes).
CompareCoreApp ==
    /\ pc = "list"
    /\ build = "core-app.js"
    /\ newHashMap' = computeDualHashMap(validForHashing)
    /\ IF logModule = "logging.js"
       THEN IF newHashMap' # << >>
            THEN /\ pc' = "done"
                 /\ outcome' = "threw"
                 /\ UNCHANGED <<previousHashMap, ioLog>>
            ELSE /\ pc' = "store"
                 /\ UNCHANGED <<previousHashMap, ioLog, outcome>>
       ELSE /\ previousHashMap' = loadGroupSettingsHashMap
            /\ ioLog' = ioLog \o << "load", "compare" >>
            /\ pc' = "store"
            /\ UNCHANGED outcome
    /\ UNCHANGED <<hashVars, storeVars, changed, changedEmails, diffPc, build, logModule,
                   api, options, todo, all, runHashMap, violations, baseline, runCount>>
    /\ UNCHANGED testVars
    /\ UNCHANGED failVars
    /\ UNCHANGED invVars
    /\ UNCHANGED inputVars
    /\ UNCHANGED sheetVars
    /\ UNCHANGED steadyVars
    /\ UNCHANGED listVars
    /\ UNCHANGED updateVars
    /\ UNCHANGED reportVars
    /\ UNCHANGED cleanVars

\* listGroupSettings of part_004 from the load of the previous map to the
\* comparison; the copy at 1098 returns here when no hash changed.
ComparePart004 ==
    /\ pc = "list"
    /\ build # "core-app.js"
    /\ previousHashMap' = loadGroupSettingsHashMap
    /\ newHashMap' = generateGroupSettingsHashMap(validForHashing)
    /\ changed' = logHashDifferences(newHashMap', previousHashMap')
    /\ IF build = "part_004:1583"
       THEN /\ changedEmails' = << >>
            /\ ioLog' = ioLog \o << "load", "compare" >>
       ELSE /\ changedEmails' = getGroupsWithHashChanges(newHashMap')
            /\ ioLog' = ioLog \o << "load", "compare", "load", "compare" >>
    /\ IF /\ build = "part_004:1098"
          /\ Len(changedEmails') = 0
          /\ ~options.manual
          /\ ~options.dryRun
       THEN pc' = "done" /\ outcome' = "returned"
       ELSE pc' = "store" /\ UNCHANGED outcome
    /\ UNCHANGED <<hashVars, storeVars, diffPc, build, logModule, api, options, todo, all,
                   runHashMap, violations, baseline, runCount>>
    /\ UNCHANGED testVars
    /\ UNCHANGED failVars
    /\ UNCHANGED invVars
    /\ UNCHANGED inputVars
    /\ UNCHANGED sheetVars
    /\ UNCHANGED steadyVars
    /\ UNCHANGED listVars
    /\ UNCHANGED updateVars
    /\ UNCHANGED reportVars
    /\ UNCHANGED cleanVars

\* saveDualHashMap(newHashMap) in core-app.js, storeGroupSettingsHashMap(newHashMap)
\* in part_004.
StoreNewHashMap ==
    /\ pc = "store"
    /\ \E quota \in Quota :
         IF quota = "exceeded"
         THEN /\ storageFailed' = TRUE
              /\ pc' = "done"
              /\ outcome' = "threw"
              /\ UNCHANGED <<props, lastSaved, ioLog>>
         ELSE /\ IF build = "core-app.js"
                 THEN /\ props' = saveDualHashMap(newHashMap)
                      /\ lastSaved' = Saved("saveDualHashMap", newHashMap)
                 ELSE /\ props' = storeGroupSettingsHashMap(newHashMap)
                      /\ lastSaved' = Saved("listGroupSettings", newHashMap)
              /\ ioLog' = Append(ioLog, "store")
              /\ pc' = "report"
              /\ UNCHANGED <<outcome, storageFailed>>
    /\ UNCHANGED <<hashVars, diffVars, storeModule, build, logModule, api, options, todo,
                   all, runHashMap, violations, baseline, runCount>>
    /\ UNCHANGED testVars
    /\ UNCHANGED invVars
    /\ UNCHANGED inputVars
    /\ UNCHANGED sheetVars
    /\ steady' = (steady /\ ~storageFailed')
    /\ UNCHANGED listVars
    /\ UNCHANGED updateVars
    /\ UNCHANGED reportVars
    /\ UNCHANGED cleanVars

\* The violation check, to the return of listGroupSettings.
CheckViolations ==
    /\ pc = "report"
    /\ violations' = filterGroupSettings(entriesWithSettings)
    /\ pc' = "done"
    /\ outcome' = "returned"
    /\ UNCHANGED <<hashVars, diffVars, storeVars, build, logModule, api, options, todo,
                   all, runHashMap, ioLog, baseline, runCount>>
    /\ UNCHANGED testVars
    /\ UNCHANGED failVars
    /\ UNCHANGED invVars
    /\ UNCHANGED inputVars
    /\ UNCHANGED sheetVars
    /\ UNCHANGED steadyVars
    /\ UNCHANGED listVars
    /\ UNCHANGED updateVars
    /\ UNCHANGED reportVars
    /\ UNCHANGED cleanVars

\* Between two runs an administrator edits the settings of a group.
ApiChange ==
    /\ pc \in {"idle", "done"}
    /\ runCount < MaxRuns
    /\ \E email \in DOMAIN api : \E data \in ApiSettings \ {api[email]} :
         api' = [api EXCEPT ![email] = data]
    /\ UNCHANGED <<hashVars, diffVars, storeVars, build, logModule, pc, options, todo,
                   all, runHashMap, violations, ioLog, baseline, runCount, outcome>>
    /\ UNCHANGED testVars
    /\ UNCHANGED failVars
    /\ UNCHANGED invVars
    /\ UNCHANGED inputVars
    /\ UNCHANGED sheetVars
    /\ steady' = FALSE
    /\ UNCHANGED listVars
    /\ UNCHANGED updateVars
    /\ UNCHANGED reportVars
    /\ UNCHANGED cleanVars

NextRun ==
    \/ StartRun
    \/ FetchCoreGroup
    \/ FetchPart007
    \/ FetchAllStore
    \/ CompareCoreApp
    \/ ComparePart004
    \/ StoreNewHashMap
    \/ CheckViolations
    \/ ApiChange

SpecRun == InitRun /\ [][NextRun]_vars

-----------------------------------------------------------------------------
(* The differ on hash maps of up to MaxEntities entities: a map is stored, *)
(* then loaded as the baseline and compared with the new map.  The hashes  *)
(* of the first two entities are drawn freely, old and new; the entities   *)
(* after them share one case.                                              *)

(* testHashSystem: the hash map of two sample groups is stored, one        *)
(* setting of one of them is changed, and the groups with hash changes are *)
(* asked for.  The copy of part_010 uses the functions of utils.js, the    *)
(* copy of app.js those of config.js.                                      *)

TestFiles == {"part_010", "app.js"}

TestEmails == << "test1@example.com", "test2@example.com" >>

\* The settings a sample group can start with.
SampleSettings ==
    { << [k |-> "whoCanPostMessage", v |-> Str(p)], [k |-> "whoCanInvite", v |-> Str(i)] >> :
        p \in {"ANYONE_CAN_POST", "ALL_MEMBERS_CAN_POST"},
        i \in {"ALL_MANAGERS_CAN_INVITE", "OWNERS_ONLY"} }

\* { email, settings }
SampleGroup(email, settings) ==
    [NoResult EXCEPT !.email = email, !.settings = settings, !.hasSettings = TRUE]

\* The settings the test can change, and the values it can give them.
ModifiedKeys == {"whoCanPostMessage", "whoCanInvite", "whoCanJoin", "name"}

ModifiedValues == {Str("MODERATORS_ONLY"), Str("ANYONE_CAN_POST"), Null}

\* getStoredDualHashMap() of config.js
getStoredDualHashMap == JSONparseOrEmpty(props["GROUP_DUAL_HASH_MAP"])

\* getGroupsWithHashChanges(newMap) of config.js
getGroupsWithHashChangesConfig(newMap) ==
    GroupsWithHashChanges(newMap, getStoredDualHashMap)

InitTest ==
    /\ HashIdle
    /\ DiffIdle
    /\ RunIdle
    /\ props = NoProps
    /\ storeModule \in StoreModules
    /\ lastSaved = NothingSaved
    /\ testFile \in TestFiles
    /\ sampleGroups \in
          { << SampleGroup(TestEmails[1], s1), SampleGroup(TestEmails[2], s2) >> :
              s1 \in SampleSettings, s2 \in SampleSettings }
    /\ modifiedGroups = << >>
    /\ testPc = "start"
    /\ OverlapIdle
    /\ InputIdle
    /\ SheetIdle
    /\ SteadyIdle
    /\ ListIdle
    /\ UpdateIdle
    /\ ReportIdle
    /\ CleanIdle

\* testHashSystem to the change of one setting: the original hash map is
\* computed and stored, the groups are copied and one setting is assigned.
TestStoreOriginal ==
    /\ testPc = "start"
    /\ LET originalHashMap ==
               IF testFile = "part_010"
               THEN generateGroupSettingsHashMap(sampleGroups)
               ELSE computeDualHashMap(sampleGroups)
       IN  /\ props' = IF testFile = "part_010"
                       THEN storeGroupSettingsHashMap(originalHashMap)
                       ELSE saveDualHashMap(originalHashMap)
           /\ lastSaved' = Saved("testHashSystem", originalHashMap)
    /\ \E i \in 1..Len(sampleGroups) : \E key \in ModifiedKeys : \E value \in ModifiedValues :
         /\ Get(sampleGroups[i].settings, key) # value
         /\ modifiedGroups' =
               [sampleGroups EXCEPT ![i].settings = Put(sampleGroups[i].settings, key, value)]
    /\ testPc' = "saved"
    /\ UNCHANGED <<hashVars, diffVars, runVars, storeModule, testFile, sampleGroups>>
    /\ UNCHANGED failVars
    /\ UNCHANGED invVars
    /\ UNCHANGED inputVars
    /\ UNCHANGED sheetVars
    /\ UNCHANGED steadyVars
    /\ UNCHANGED listVars
    /\ UNCHANGED updateVars
    /\ UNCHANGED reportVars
    /\ UNCHANGED cleanVars

\* The rest of testHashSystem: the new hash map, logHashDifferences called
\* with one argument (it throws when it is the function of logging.js, the
\* new map having entries), and the groups with hash changes.
TestDetectChange ==
    /\ testPc = "saved"
    /\ newHashMap' = IF testFile = "part_010"
                     THEN generateGroupSettingsHashMap(modifiedGroups)
                     ELSE computeDualHashMap(modifiedGroups)
    /\ \E module \in LogModules :
         IF module = "logging.js"
         THEN /\ testPc' = "threw"
              /\ UNCHANGED changedEmails
         ELSE /\ testPc' = "done"
              /\ changedEmails' = IF testFile = "part_010"
                                  THEN getGroupsWithHashChanges(newHashMap')
                                  ELSE getGroupsWithHashChangesConfig(newHashMap')
    /\ UNCHANGED <<hashVars, storeVars, runVars, previousHashMap, changed, diffPc,
                   testFile, sampleGroups, modifiedGroups>>
    /\ UNCHANGED failVars
    /\ UNCHANGED invVars
    /\ UNCHANGED inputVars
    /\ UNCHANGED sheetVars
    /\ UNCHANGED steadyVars
    /\ UNCHANGED listVars
    /\ UNCHANGED updateVars
    /\ UNCHANGED reportVars
    /\ UNCHANGED cleanVars

NextTest == TestStoreOriginal \/ TestDetectChange

SpecTest == InitTest /\ [][NextTest]_vars

(* Invocations of fetchAllGroupSettings started from the menu.  Nothing in *)
(* the script takes a lock or records that a run is under way, and the     *)
(* platform runs the executions of several users side by side, one         *)
(* PropertiesService call being one step.                                  *)

InitOverlap ==
    /\ HashIdle
    /\ DiffIdle
    /\ TestIdle
    /\ props = NoProps
    /\ storeModule \in StoreModules
    /\ lastSaved = NothingSaved
    /\ build \in Builds
    /\ logModule = "logging.js"
    /\ api \in [{GroupEmails[i] : i \in 1..Len(GroupEmails)} -> ApiSettings]
    /\ pc = "off"
    /\ options = EXECUTION_MODE
    /\ todo = << >>
    /\ all = << >>
    /\ runHashMap = << >>
    /\ violations = << >>
    /\ ioLog = << >>
    /\ baseline = NoProps
    /\ runCount = 0
    /\ outcome = ""
    /\ storageFailed = FALSE
    /\ invPc = [p \in Invocations |-> "idle"]
    /\ invTodo = [p \in Invocations |-> << >>]
    /\ invMap = [p \in Invocations |-> << >>]
    /\ invSeen = [p \in Invocations |-> Absent]
    /\ InputIdle
    /\ SheetIdle
    /\ SteadyIdle
    /\ ListIdle
    /\ UpdateIdle
    /\ ReportIdle
    /\ CleanIdle

\* An invocation begins: fetchAllGroupSettings of part_007 loads the stored
\* map here, that of core-group.js loads nothing yet.
InvStart(p) ==
    /\ invPc[p] = "idle"
    /\ invPc' = [invPc EXCEPT ![p] = "fetch"]
    /\ invTodo' = [invTodo EXCEPT ![p] = GroupEmails]
    /\ IF UsesPart007(build)
       THEN /\ invMap' = [invMap EXCEPT ![p] = loadGroupSettingsHashMap]
            /\ invSeen' = [invSeen EXCEPT ![p] = props[HashMapKey]]
       ELSE UNCHANGED <<invMap, invSeen>>
    /\ UNCHANGED <<hashVars, storeVars, diffVars, runVars, testVars, failVars>>
    /\ UNCHANGED inputVars
    /\ UNCHANGED sheetVars
    /\ UNCHANGED steadyVars
    /\ UNCHANGED listVars
    /\ UNCHANGED updateVars
    /\ UNCHANGED reportVars
    /\ UNCHANGED cleanVars

\* The next position of an invocation whose current email is done.
AfterEmail(p) == IF Len(invTodo[p]) = 1 /\ ~UsesPart007(build) THEN "done" ELSE "fetch"

\* fetchGroupSettings for the next email, up to its store: of core-group.js
\* it loads the stored map and compares, of part_007 it compares with and
\* writes into the map in memory.
InvFetch(p) ==
    /\ invPc[p] = "fetch"
    /\ invTodo[p] # << >>
    /\ LET email == Head(invTodo[p])
           pair == generateGroupSettingsHashPair(api[email])
       IN  IF UsesPart007(build)
           THEN /\ invMap' = [invMap EXCEPT ![p] =
                                IF skipPart007(pair, GetOrEmpty(invMap[p], email), FALSE)
                                THEN invMap[p]
                                ELSE Put(invMap[p], email, pair)]
                /\ invTodo' = [invTodo EXCEPT ![p] = Tail(invTodo[p])]
                /\ UNCHANGED <<invPc, invSeen>>
           ELSE /\ invMap' = [invMap EXCEPT ![p] = loadGroupSettingsHashMap]
                /\ invSeen' = [invSeen EXCEPT ![p] = props[HashMapKey]]
                /\ IF skipCoreGroup(pair, GetOrEmpty(loadGroupSettingsHashMap, email))
                   THEN /\ invTodo' = [invTodo EXCEPT ![p] = Tail(invTodo[p])]
                        /\ invPc' = [invPc EXCEPT ![p] = AfterEmail(p)]
                   ELSE /\ invPc' = [invPc EXCEPT ![p] = "storing"]
                        /\ UNCHANGED invTodo
    /\ UNCHANGED <<hashVars, storeVars, diffVars, runVars, testVars, failVars>>
    /\ UNCHANGED inputVars
    /\ UNCHANGED sheetVars
    /\ UNCHANGED steadyVars
    /\ UNCHANGED listVars
    /\ UNCHANGED updateVars
    /\ UNCHANGED reportVars
    /\ UNCHANGED cleanVars

\* hashMap[email] = { businessHash, fullHash }; storeGroupSettingsHashMap(hashMap)
\* of fetchGroupSettings in core-group.js.
InvStore(p) ==
    /\ invPc[p] = "storing"
    /\ LET email == Head(invTodo[p])
           stored == Put(invMap[p], email, generateGroupSettingsHashPair(api[email]))
       IN  /\ props' = storeGroupSettingsHashMap(stored)
           /\ lastSaved' = Saved("fetchGroupSettings", stored)
           /\ invSeen' = [invSeen EXCEPT ![p] = props'[HashMapKey]]
    /\ invTodo' = [invTodo EXCEPT ![p] = Tail(invTodo[p])]
    /\ invPc' = [invPc EXCEPT ![p] = AfterEmail(p)]
    /\ UNCHANGED <<hashVars, diffVars, runVars, testVars, failVars, storeModule, invMap>>
    /\ UNCHANGED inputVars
    /\ UNCHANGED sheetVars
    /\ UNCHANGED steadyVars
    /\ UNCHANGED listVars
    /\ UNCHANGED updateVars
    /\ UNCHANGED reportVars
    /\ UNCHANGED cleanVars

\* storeGroupSettingsHashMap(hashMap) at the end of fetchAllGroupSettings in
\* part_007.
InvStoreAll(p) ==
    /\ invPc[p] = "fetch"
    /\ invTodo[p] = << >>
    /\ UsesPart007(build)
    /\ props' = storeGroupSettingsHashMap(invMap[p])
    /\ lastSaved' = Saved("fetchAllGroupSettings", invMap[p])
    /\ invSeen' = [invSeen EXCEPT ![p] = props'[HashMapKey]]
    /\ invPc' = [invPc EXCEPT ![p] = "done"]
    /\ UNCHANGED <<hashVars, diffVars, runVars, testVars, failVars, storeModule, invTodo,
                   invMap>>
    /\ UNCHANGED inputVars
    /\ UNCHANGED sheetVars
    /\ UNCHANGED steadyVars
    /\ UNCHANGED listVars
    /\ UNCHANGED updateVars
    /\ UNCHANGED reportVars
    /\ UNCHANGED cleanVars

NextOverlap ==
    \E p \in Invocations : InvStart(p) \/ InvFetch(p) \/ InvStore(p) \/ InvStoreAll(p)

SpecOverlap == InitOverlap /\ [][NextOverlap]_vars

(* The hasher handed a value of any type.  A value is its type, its text   *)
(* and its own enumerable properties (those of an object, the indexed      *)
(* characters of a string, none otherwise).                                *)

Obj(o) == [t |-> "object", s |-> "", o |-> o]

NonObjects ==
    { [t |-> "null", s |-> "null", o |-> << >>],
      [t |-> "undefined", s |-> "undefined", o |-> << >>],
      [t |-> "number", s |-> "0", o |-> << >>],
      [t |-> "number", s |-> "7", o |-> << >>],
      [t |-> "boolean", s |-> "false", o |-> << >>],
      [t |-> "string", s |-> "", o |-> << >>],
      [t |-> "string", s |-> "a", o |-> << [k |-> "0", v |-> Str("a")] >>] }

Inputs == NonObjects \cup {Obj(o) : o \in SettingsObjects}

\* settings[k] throws a TypeError when settings is null or undefined.
PropertyReadThrows(x) == x.t \in {"null", "undefined"}

\* if (email && settings): the values JavaScript takes as true.
Truthy(x) ==
    ~ \/ x.t \in {"null", "undefined"}
      \/ x.t = "number" /\ x.s = "0"
      \/ x.t = "boolean" /\ x.s = "false"
      \/ x.t = "string" /\ x.s = ""

\* What the hasher does with the value x.
HashOf(x, copy) ==
    IF PropertyReadThrows(x)
    THEN [NoInputResult EXCEPT !.done = TRUE, !.by = copy, !.threw = TRUE]
    ELSE [ done |-> TRUE,
           by |-> copy,
           threw |-> FALSE,
           business |-> IF copy = "utils.js" THEN businessData(x.o) ELSE relevant(x.o),
           full |-> normalized(x.o),
           pair |-> IF copy = "utils.js"
                    THEN generateGroupSettingsHashPair(x.o)
                    ELSE computeDualGroupSettingsHash(x.o) ]

InitInput ==
    /\ HashIdle
    /\ StoreIdle
    /\ DiffIdle
    /\ RunIdle
    /\ TestIdle
    /\ OverlapIdle
    /\ input \in Inputs
    /\ inputResult = NoInputResult
    /\ SheetIdle
    /\ SteadyIdle
    /\ ListIdle
    /\ UpdateIdle
    /\ ReportIdle
    /\ CleanIdle

\* generateGroupSettingsHashPair(input)
HashInputWithUtils ==
    /\ ~inputResult.done
    /\ inputResult' = HashOf(input, "utils.js")
    /\ UNCHANGED <<hashVars, storeVars, diffVars, runVars, testVars, failVars, invVars, input>>
    /\ UNCHANGED sheetVars
    /\ UNCHANGED steadyVars
    /\ UNCHANGED listVars
    /\ UNCHANGED updateVars
    /\ UNCHANGED reportVars
    /\ UNCHANGED cleanVars

\* computeDualGroupSettingsHash(input)
HashInputWithConfig ==
    /\ ~inputResult.done
    /\ inputResult' = HashOf(input, "config.js")
    /\ UNCHANGED <<hashVars, storeVars, diffVars, runVars, testVars, failVars, invVars, input>>
    /\ UNCHANGED sheetVars
    /\ UNCHANGED steadyVars
    /\ UNCHANGED listVars
    /\ UNCHANGED updateVars
    /\ UNCHANGED reportVars
    /\ UNCHANGED cleanVars

\* generateGroupSettingsHashMap([{ email, settings: input }]): the entry is
\* hashed when input is truthy, left out otherwise.
HashMapOfInput ==
    /\ ~inputResult.done
    /\ newHashMap = << >>
    /\ IF Truthy(input)
       THEN /\ inputResult' = HashOf(input, "utils.js")
            /\ newHashMap' = << [k |-> "a@example.com", v |-> inputResult'.pair] >>
       ELSE /\ inputResult' = [NoInputResult EXCEPT !.done = TRUE, !.by = "utils.js"]
            /\ UNCHANGED newHashMap
    /\ UNCHANGED <<hashVars, storeVars, runVars, testVars, failVars, invVars, input,
                   previousHashMap, changed, changedEmails, diffPc>>
    /\ UNCHANGED sheetVars
    /\ UNCHANGED steadyVars
    /\ UNCHANGED listVars
    /\ UNCHANGED updateVars
    /\ UNCHANGED reportVars
    /\ UNCHANGED cleanVars

NextInput == HashInputWithUtils \/ HashInputWithConfig \/ HashMapOfInput

SpecInput == InitInput /\ [][NextInput]_vars

(* The Group Hashes sheet.  A data row is the tuple of its cells; the      *)
(* header row is not kept.  The test of the Last Modified column stores a  *)
(* map, writes a map to the sheet, waits, and does so again.               *)

SheetModules == {"config.js", "part_013", "part_015"}

\* HEADERS.HASHES has four columns in storage.js; the rows the saveToSheet of
\* part_015 builds have six.
HashesColumns == {4, 6}

testEmail == "test@domain.com"

otherEmail == "other@domain.com"

SheetPairs ==
    {[businessHash |-> b, fullHash |-> "xyz789"] : b \in {"abc123", "abc999"}}

SheetMaps ==
    {<< >>}
    \cup {<< [k |-> testEmail, v |-> p] >> : p \in SheetPairs}
    \cup {<< [k |-> testEmail, v |-> p],
             [k |-> otherEmail, v |-> [businessHash |-> "def456", fullHash |-> "uvw000"]] >> :
             p \in SheetPairs}

\* new Date().toISOString()
Now == "T" \o ToString(clock)

\* A sheet that has its header row only, or that holds a row already.
InitialSheets == {<< >>, << <<testEmail, "abc123", "xyz789", "T0">> >>}

\* sheet.getLastRow(): the header row and the data rows
getLastRow(rows) == 1 + Len(rows)

\* x || ''
OrBlank(x) == IF x = UndefinedHash THEN "" ELSE x

\* modifiedMap of part_015: email -> row[3] over the rows that have an email
ModifiedMap(existing) ==
    LET withEmail == SelectSeq(existing, LAMBDA row : row[1] # "")
    IN  [i \in 1..Len(withEmail) |-> [k |-> withEmail[i][1], v |-> withEmail[i][4]]]

\* modifiedMap[email] || ''
ModifiedOrBlank(modifiedMap, email) ==
    IF HasKey(modifiedMap, email) THEN Get(modifiedMap, email) ELSE ""

\* The rows saveToSheet of config.js and of part_013 builds.
RowsConfig(hashMap) ==
    [i \in 1..Len(hashMap) |->
        <<hashMap[i].k, hashMap[i].v.businessHash, hashMap[i].v.fullHash, Now>>]

\* The rows saveToSheet of part_015 builds.
RowsPart015(hashMap, oldMap, modifiedMap) ==
    [i \in 1..Len(hashMap) |->
        LET email == hashMap[i].k
            hashes == hashMap[i].v
            old == GetOrEmpty(oldMap, email)
            isModified == hashes.businessHash # old.businessHash
                             \/ hashes.fullHash # old.fullHash
        IN  <<email, hashes.businessHash, hashes.fullHash,
              OrBlank(old.businessHash), OrBlank(old.fullHash),
              IF isModified THEN Now ELSE ModifiedOrBlank(modifiedMap, email)>>]

InitSheet ==
    /\ HashIdle
    /\ StoreIdle
    /\ DiffIdle
    /\ RunIdle
    /\ TestIdle
    /\ OverlapIdle
    /\ InputIdle
    /\ sheetModule \in SheetModules
    /\ hashesColumns \in HashesColumns
    /\ sheetRows \in InitialSheets
    /\ clock = 1
    /\ sheetBefore = << >>
    /\ sheetArg = << >>
    /\ sheetRewrite = FALSE
    /\ sheetWrites = 0
    /\ sheetPc = "idle"
    /\ SteadyIdle
    /\ ListIdle
    /\ UpdateIdle
    /\ ReportIdle
    /\ CleanIdle

\* setProperty("GROUP_DUAL_HASH_MAP", JSON.stringify(map)), as the test does
\* before each write to the sheet.
SheetStore ==
    /\ sheetPc # "off"
    /\ \E m \in SheetMaps :
          props' = [props EXCEPT !["GROUP_DUAL_HASH_MAP"] = JSONstringifyMap(m)]
    /\ sheetPc' = "idle"
    /\ UNCHANGED <<hashVars, diffVars, runVars, testVars, failVars, invVars, inputVars,
                   storeModule, lastSaved, sheetModule, hashesColumns, sheetRows, clock,
                   sheetBefore, sheetArg, sheetRewrite, sheetWrites>>
    /\ UNCHANGED steadyVars
    /\ UNCHANGED listVars
    /\ UNCHANGED updateVars
    /\ UNCHANGED reportVars
    /\ UNCHANGED cleanVars

\* Utilities.sleep(1000)
SheetSleep ==
    /\ sheetPc # "off"
    /\ clock < MaxClock
    /\ clock' = clock + 1
    /\ sheetPc' = "idle"
    /\ UNCHANGED <<hashVars, storeVars, diffVars, runVars, testVars, failVars, invVars,
                   inputVars, sheetModule, hashesColumns, sheetRows, sheetBefore, sheetArg,
                   sheetRewrite, sheetWrites>>
    /\ UNCHANGED steadyVars
    /\ UNCHANGED listVars
    /\ UNCHANGED updateVars
    /\ UNCHANGED reportVars
    /\ UNCHANGED cleanVars

\* saveToSheet(hashMap) of config.js and of part_013: the range to clear has
\* getLastRow() - 1 rows, and getRange throws when that is none; every row
\* written carries the time of the write.
saveToSheetConfig ==
    /\ sheetPc # "off"
    /\ sheetModule \in {"config.js", "part_013"}
    /\ sheetWrites < MaxWrites
    /\ \E hashMap \in SheetMaps :
          /\ sheetArg' = hashMap
          /\ IF getLastRow(sheetRows) - 1 < 1
             THEN /\ sheetPc' = "threw"
                  /\ UNCHANGED <<sheetRows, sheetWrites>>
             ELSE /\ sheetPc' = "saved"
                  /\ sheetRows' = RowsConfig(hashMap)
                  /\ sheetWrites' = IF Len(hashMap) > 0 THEN sheetWrites + 1 ELSE sheetWrites
    /\ sheetBefore' = sheetRows
    /\ sheetRewrite' = (sheetWrites >= 1)
    /\ UNCHANGED <<hashVars, storeVars, diffVars, runVars, testVars, failVars, invVars,
                   inputVars, sheetModule, hashesColumns, clock>>
    /\ UNCHANGED steadyVars
    /\ UNCHANGED listVars
    /\ UNCHANGED updateVars
    /\ UNCHANGED reportVars
    /\ UNCHANGED cleanVars

\* saveToSheet(hashMap) of part_015: the data rows are cleared, then read for
\* their Last Modified cells, then the new six-cell rows are written to a
\* range HEADERS.HASHES.length wide; setValues throws when the widths differ.
saveToSheetPart015 ==
    /\ sheetPc # "off"
    /\ sheetModule = "part_015"
    /\ sheetWrites < MaxWrites
    /\ \E hashMap \in SheetMaps :
          LET oldMap == JSONparseOrEmpty(props["GROUP_DUAL_HASH_MAP"])
              cleared == IF getLastRow(sheetRows) > 1 THEN << >> ELSE sheetRows
              modifiedMap == IF getLastRow(cleared) > 1 THEN ModifiedMap(cleared) ELSE << >>
              rows == RowsPart015(hashMap, oldMap, modifiedMap)
          IN  /\ sheetArg' = hashMap
              /\ IF Len(rows) > 0 /\ hashesColumns # 6
                 THEN /\ sheetPc' = "threw"
                      /\ sheetRows' = cleared
                      /\ UNCHANGED sheetWrites
                 ELSE /\ sheetPc' = "saved"
                      /\ sheetRows' = IF Len(rows) > 0 THEN rows ELSE cleared
                      /\ sheetWrites' = IF Len(rows) > 0 THEN sheetWrites + 1 ELSE sheetWrites
    /\ sheetBefore' = sheetRows
    /\ sheetRewrite' = (sheetWrites >= 1)
    /\ UNCHANGED <<hashVars, storeVars, diffVars, runVars, testVars, failVars, invVars,
                   inputVars, sheetModule, hashesColumns, clock>>
    /\ UNCHANGED steadyVars
    /\ UNCHANGED listVars
    /\ UNCHANGED updateVars
    /\ UNCHANGED reportVars
    /\ UNCHANGED cleanVars

NextSheet == SheetStore \/ SheetSleep \/ saveToSheetConfig \/ saveToSheetPart015

SpecSheet == InitSheet /\ [][NextSheet]_vars

-----------------------------------------------------------------------------
(* The listing of the groups of the domain, page by page, under the        *)
(* domain ETag.                                                            *)

ListModules == {"core-group.js", "part_007"}

\* data.etag of a page of the listing: an ETag, or none
DomainETags == {"", "e1", "e2"}

\* res.getResponseCode(): 304 can answer a request that carried If-None-Match
ListStatuses(etagSent) ==
    IF etagSent # "" THEN {"200", "304", "error"} ELSE {"200", "error"}

\* data.groups of page p
GroupsOfPage(p) == << "g" \o ToString(p) \o "@example.com" >>

\* props after setDomainETag(domain, etag)
setDomainETag(etag) == etag

InitList ==
    /\ HashIdle
    /\ StoreIdle
    /\ DiffIdle
    /\ RunIdle
    /\ TestIdle
    /\ OverlapIdle
    /\ InputIdle
    /\ SheetIdle
    /\ SteadyIdle
    /\ listModule \in ListModules
    /\ bypassETag = FALSE
    /\ storedDomainETag \in DomainETags
    /\ etagBefore = ""
    /\ oldDomainETag = ""
    /\ pageToken = 0
    /\ groups = << >>
    /\ listResult = NoListResult
    /\ listCalls = 0
    /\ listPc = "idle"
    /\ UpdateIdle
    /\ ReportIdle
    /\ CleanIdle

\* fetchAllGroupData(domain, options) up to its first request.
ListStart ==
    /\ listPc \in {"idle", "done"}
    /\ listCalls < MaxLists
    /\ \E b \in BOOLEAN :
          /\ bypassETag' = b
          /\ oldDomainETag' = IF ~b THEN storedDomainETag ELSE ""
    /\ etagBefore' = storedDomainETag
    /\ groups' = << >>
    /\ pageToken' = 0
    /\ listResult' = NoListResult
    /\ listCalls' = listCalls + 1
    /\ listPc' = "page"
    /\ UNCHANGED <<hashVars, storeVars, diffVars, runVars, testVars, failVars, invVars,
                   inputVars, sheetVars, steadyVars, listModule, storedDomainETag>>
    /\ UNCHANGED updateVars
    /\ UNCHANGED reportVars
    /\ UNCHANGED cleanVars

\* One turn of the do-while loop: the request for a page and what is done
\* with its response.  A 304 or an error ends the call (on a 304 with no
\* group collected part_007 returns the stored GROUP_NORMALIZED_DATA, the
\* other copy the empty list); a 200 stores the
\* ETag of the page at once, then the groups of the page are collected and
\* the loop goes on while the page names a next one.
ListPage ==
    /\ listPc = "page"
    /\ \E status \in ListStatuses(oldDomainETag), newDomainETag \in DomainETags,
          more \in BOOLEAN :
         LET page == IF pageToken = 0 THEN 1 ELSE pageToken
             nextPageToken == IF more /\ page < MaxPages THEN page + 1 ELSE 0
             collected == groups \o GroupsOfPage(page)
         IN  IF status = "304"
             THEN /\ listResult' = [returned |-> TRUE, groups |-> << >>, complete |-> FALSE,
                                    fallback |-> (listModule = "part_007" /\ groups = << >>)]
                  /\ listPc' = "done"
                  /\ UNCHANGED <<storedDomainETag, groups, pageToken>>
             ELSE IF status # "200"
             THEN /\ listResult' = [returned |-> TRUE, groups |-> << >>, complete |-> FALSE,
                                    fallback |-> FALSE]
                  /\ listPc' = "done"
                  /\ UNCHANGED <<storedDomainETag, groups, pageToken>>
             ELSE /\ storedDomainETag' =
                        IF ~bypassETag /\ newDomainETag # ""
                        THEN setDomainETag(newDomainETag)
                        ELSE storedDomainETag
                  /\ groups' = collected
                  /\ pageToken' = nextPageToken
                  /\ IF nextPageToken # 0
                     THEN /\ listPc' = "page"
                          /\ UNCHANGED listResult
                     ELSE /\ listPc' = "done"
                          /\ listResult' = [returned |-> TRUE, groups |-> collected,
                                            complete |-> TRUE, fallback |-> FALSE]
    /\ UNCHANGED <<hashVars, storeVars, diffVars, runVars, testVars, failVars, invVars,
                   inputVars, sheetVars, steadyVars, listModule, bypassETag, etagBefore,
                   oldDomainETag, listCalls>>
    /\ UNCHANGED updateVars
    /\ UNCHANGED reportVars
    /\ UNCHANGED cleanVars

NextList == ListStart \/ ListPage

SpecList == InitList /\ [][NextList]_vars

-----------------------------------------------------------------------------
(* updateGroupSettings: the rows of the report sheet turned into PATCH     *)
(* requests.                                                               *)

\* updateGroupSettings of core-app.js sends at once; the copies of part_004
\* ask for a confirmation first.
UpdateModules == {"core-app.js", "part_004:936", "part_004:1157"}

\* getDiscrepancyRowsFromSheet of sheet.js keeps the rows whose apply cell is
\* true; the copy of core-app.js reads no apply cell.
RowsModules == {"sheet.js", "core-app.js"}

ReportRows ==
    [email : {"a@example.com", "b@example.com"},
     key : {"whoCanJoin", "whoCanPostMessage"},
     expected : {"CAN_REQUEST_TO_JOIN"},
     apply : BOOLEAN]

ReportSheets == UNION {[1..n -> ReportRows] : n \in 0..MaxRows}

\* getDiscrepancyRowsFromSheet()
getDiscrepancyRowsFromSheet ==
    IF rowsModule = "sheet.js"
    THEN SelectSeq(reportRows,
                   LAMBDA row : row.email # "" /\ row.key # "" /\ row.apply = TRUE)
    ELSE SelectSeq(reportRows, LAMBDA row : row.email # "" /\ row.key # "")

\* updates after violations.forEach: email -> { key: expected }
RECURSIVE Updates(_)
Updates(rows) ==
    IF Len(rows) = 0 THEN << >>
    ELSE LET v == rows[Len(rows)]
             updates == Updates(SubSeq(rows, 1, Len(rows) - 1))
             payload == IF HasKey(updates, v.email) THEN Get(updates, v.email) ELSE << >>
         IN  Put(updates, v.email, Put(payload, v.key, v.expected))

\* The PATCH requests of Object.entries(updates).forEach
Patches(updates) == [i \in 1..Len(updates) |-> [email |-> updates[i].k, payload |-> updates[i].v]]

InitUpdate ==
    /\ HashIdle
    /\ StoreIdle
    /\ DiffIdle
    /\ RunIdle
    /\ TestIdle
    /\ OverlapIdle
    /\ InputIdle
    /\ SheetIdle
    /\ SteadyIdle
    /\ ListIdle
    /\ updateModule \in UpdateModules
    /\ rowsModule \in RowsModules
    /\ reportRows \in ReportSheets
    /\ answer = ""
    /\ patched = << >>
    /\ updatePc = "idle"
    /\ ReportIdle
    /\ CleanIdle

\* updateGroupSettings() of core-app.js: every row read becomes part of a
\* PATCH request; no prompt is shown.
updateGroupSettingsCoreApp ==
    /\ updatePc = "idle"
    /\ updateModule = "core-app.js"
    /\ patched' = Patches(Updates(getDiscrepancyRowsFromSheet))
    /\ updatePc' = "done"
    /\ UNCHANGED <<hashVars, storeVars, diffVars, runVars, testVars, failVars, invVars,
                   inputVars, sheetVars, steadyVars, listVars, updateModule, rowsModule,
                   reportRows, answer>>
    /\ UNCHANGED reportVars
    /\ UNCHANGED cleanVars

\* updateGroupSettings() of part_004: it returns when no row was read, then
\* asks the user and returns unless the answer is YES.
updateGroupSettingsPart004 ==
    /\ updatePc = "idle"
    /\ updateModule # "core-app.js"
    /\ IF Len(getDiscrepancyRowsFromSheet) = 0
       THEN UNCHANGED <<answer, patched>>
       ELSE \E response \in {"YES", "NO"} :
              /\ answer' = response
              /\ patched' = IF response # "YES" THEN << >>
                            ELSE Patches(Updates(getDiscrepancyRowsFromSheet))
    /\ updatePc' = "done"
    /\ UNCHANGED <<hashVars, storeVars, diffVars, runVars, testVars, failVars, invVars,
                   inputVars, sheetVars, steadyVars, listVars, updateModule, rowsModule,
                   reportRows>>
    /\ UNCHANGED reportVars
    /\ UNCHANGED cleanVars

NextUpdate == updateGroupSettingsCoreApp \/ updateGroupSettingsPart004

SpecUpdate == InitUpdate /\ [][NextUpdate]_vars

-----------------------------------------------------------------------------
(* The end of listGroupSettings: the violations found are written to the  *)
(* Detail Report, the sheet updateGroupSettings reads.                     *)

ReportModules == {"sheet.js", "part_017"}

\* What filterGroupSettings can return: a violation per group and key.
Violations == {<< >>} \cup UNION {[1..n -> {r \in ReportRows : r.apply}] : n \in 1..MaxRows}

\* The data rows after writeDetailReport(violations) of sheet.js: the new
\* rows are set over the first rows of the sheet and nothing is cleared,
\* unless the headers did not match and the sheet was reset.
writeDetailReportSheetJs(existing, rows, headersMatch) ==
    IF Len(rows) = 0 THEN existing
    ELSE IF ~headersMatch THEN rows
    ELSE rows \o SubSeq(existing, Len(rows) + 1, Len(existing))

\* The data rows after writeDetailReport(detailRows) of part_017.
writeDetailReportPart017(existing, rows, headersMatch) ==
    IF ~headersMatch THEN existing
    ELSE IF Len(rows) = 0 THEN << >>
    ELSE rows

InitReport ==
    /\ HashIdle
    /\ StoreIdle
    /\ DiffIdle
    /\ RunIdle
    /\ TestIdle
    /\ OverlapIdle
    /\ InputIdle
    /\ SheetIdle
    /\ SteadyIdle
    /\ ListIdle
    /\ updateModule \in {"core-app.js", "part_004:936"}
    /\ rowsModule = "sheet.js"
    /\ reportRows = << >>
    /\ answer = ""
    /\ patched = << >>
    /\ updatePc = "idle"
    /\ reportModule \in ReportModules
    /\ runViolations = << >>
    /\ reportRuns = 0
    /\ reportPc = "idle"
    /\ CleanIdle

\* listGroupSettings from filterGroupSettings to its return: with no
\* violation it returns before writeDetailReport is called.
ReportViolations ==
    /\ reportPc \in {"idle", "done"}
    /\ updatePc = "idle"
    /\ reportRuns < MaxReports
    /\ \E found \in Violations, headersMatch \in BOOLEAN :
          /\ runViolations' = found
          /\ reportRows' =
                IF Len(found) = 0 THEN reportRows
                ELSE IF reportModule = "sheet.js"
                THEN writeDetailReportSheetJs(reportRows, found, headersMatch)
                ELSE writeDetailReportPart017(reportRows, found, headersMatch)
    /\ reportRuns' = reportRuns + 1
    /\ reportPc' = "done"
    /\ UNCHANGED <<hashVars, storeVars, diffVars, runVars, testVars, failVars, invVars,
                   inputVars, sheetVars, steadyVars, listVars, updateModule, rowsModule,
                   answer, patched, updatePc, reportModule>>
    /\ UNCHANGED cleanVars

NextReport == ReportViolations \/ updateGroupSettingsCoreApp \/ updateGroupSettingsPart004

SpecReport == InitReport /\ [][NextReport]_vars

-----------------------------------------------------------------------------
(* listGroupSettings with the cleanRun option (part_004:719): the          *)
(* property CLEAN_RUN_ACTIVE around the pipeline, and getOrCreateSheet of  *)
(* sheet.js, which deletes an existing sheet while the property is "true". *)

\* benchmark of utils.js catches what fn throws and returns its error field;
\* the copies of config.js and part_013:265 let the exception pass.
BenchmarkModules == {"utils.js", "config.js", "part_013:265"}

BenchmarkCatches(m) == m = "utils.js"

\* fn() of benchmark: the pipeline returns, or an exception leaves it.
PipelineEnds == {"returned", "threw"}

\* The sheet after getOrCreateSheet: deleted and created anew when
\* CLEAN_RUN_ACTIVE is "true", left as it is otherwise.
getOrCreateSheet(hasData, shouldReset) == IF shouldReset THEN FALSE ELSE hasData

InitClean ==
    /\ HashIdle
    /\ props = NoProps
    /\ storeModule = "storage.js"
    /\ lastSaved = NothingSaved
    /\ DiffIdle
    /\ RunIdle
    /\ TestIdle
    /\ OverlapIdle
    /\ InputIdle
    /\ SheetIdle
    /\ SteadyIdle
    /\ ListIdle
    /\ UpdateIdle
    /\ ReportIdle
    /\ benchmarkModule \in BenchmarkModules
    /\ cleanRunActive = FALSE
    /\ cleanRun = FALSE
    /\ cleanPc = "idle"
    /\ cleanOutcome = ""
    /\ cleanRuns = 0
    /\ sheetHasData \in BOOLEAN
    /\ forceDeleted = FALSE

\* listGroupSettings(options) up to the call of benchmark: with cleanRun the
\* stored hash map is deleted and CLEAN_RUN_ACTIVE is set.
CleanRunStart ==
    /\ cleanPc = "idle"
    /\ cleanRuns < MaxCleanRuns
    /\ \E c \in BOOLEAN :
          /\ cleanRun' = c
          /\ cleanRunActive' = (c \/ cleanRunActive)
          /\ props' = IF c THEN [props EXCEPT !["GROUP_SETTINGS_HASH_MAP"] = Absent]
                      ELSE props
    /\ cleanRuns' = cleanRuns + 1
    /\ cleanPc' = "running"
    /\ cleanOutcome' = ""
    /\ UNCHANGED <<hashVars, diffVars, runVars, testVars, failVars, invVars, inputVars,
                   sheetVars, steadyVars, listVars, updateVars, reportVars, storeModule,
                   lastSaved, benchmarkModule, sheetHasData, forceDeleted>>

\* The pipeline inside benchmark and what follows it: the pipeline gets the
\* report sheet and stores the hash map, then returns or throws;
\* deleteProperty("CLEAN_RUN_ACTIVE") is the statement after benchmark, and
\* is reached when benchmark returned.
CleanRunEnd ==
    /\ cleanPc = "running"
    /\ \E end \in PipelineEnds, stored \in BOOLEAN, written \in BOOLEAN :
          /\ cleanOutcome' = end
          /\ sheetHasData' = (written \/ getOrCreateSheet(sheetHasData, cleanRunActive))
          /\ props' = IF stored
                      THEN [props EXCEPT !["GROUP_SETTINGS_HASH_MAP"] =
                               JSONstringifyMap(<< >>)]
                      ELSE props
          /\ cleanRunActive' =
                IF end = "returned" \/ BenchmarkCatches(benchmarkModule)
                THEN FALSE
                ELSE cleanRunActive
    /\ cleanPc' = "idle"
    /\ UNCHANGED <<hashVars, diffVars, runVars, testVars, failVars, invVars, inputVars,
                   sheetVars, steadyVars, listVars, updateVars, reportVars, storeModule,
                   lastSaved, benchmarkModule, cleanRun, cleanRuns, forceDeleted>>

\* A call of getOrCreateSheet while no invocation of listGroupSettings is
\* executing, as updateGroupSettings or a menu function makes.
SheetOpened ==
    /\ cleanPc = "idle"
    /\ cleanRuns > 0
    /\ \E written \in BOOLEAN :
          sheetHasData' = (written \/ getOrCreateSheet(sheetHasData, cleanRunActive))
    /\ forceDeleted' = (forceDeleted \/ (sheetHasData /\ cleanRunActive))
    /\ UNCHANGED <<hashVars, storeVars, diffVars, runVars, testVars, failVars, invVars,
                   inputVars, sheetVars, steadyVars, listVars, updateVars, reportVars,
                   benchmarkModule, cleanRunActive, cleanRun, cleanPc, cleanOutcome,
                   cleanRuns>>

NextClean == CleanRunStart \/ CleanRunEnd \/ SheetOpened

SpecClean == InitClean /\ [][NextClean]_vars

-----------------------------------------------------------------------------
EntityId(i) == "g" \o ToString(i) \o "@example.com"

DiffPairs ==
    {[businessHash |-> b, fullHash |-> f] : b \in {"b1", "b2"}, f \in {"f1", "f2"}}

BulkPair == [businessHash |-> "b1", fullHash |-> "f1"]

NewMaps ==
    { [i \in 1..n |-> [k |-> EntityId(i),
                       v |-> IF i = 1 THEN p1 ELSE IF i = 2 THEN p2 ELSE BulkPair]] :
        n \in 0..MaxEntities, p1 \in DiffPairs, p2 \in DiffPairs }

OldChoices == {[has |-> FALSE, v |-> BulkPair]} \cup {[has |-> TRUE, v |-> p] : p \in DiffPairs}

BulkCases == {"absent", "same", "fullChanged"}

BulkChoice(case) ==
    CASE case = "absent" -> [has |-> FALSE, v |-> BulkPair]
      [] case = "same" -> [has |-> TRUE, v |-> BulkPair]
      [] OTHER -> [has |-> TRUE, v |-> [BulkPair EXCEPT !.fullHash = "f2"]]

\* The old map: the chosen old entries of the entities of newMap, after the
\* entry of a group that is gone from newMap if there is one.
OldMap(newMap, c1, c2, case, gone) ==
    LET choice(i) == IF i = 1 THEN c1 ELSE IF i = 2 THEN c2 ELSE BulkChoice(case)
        idx == SelectSeq([i \in 1..Len(newMap) |-> i], LAMBDA i : choice(i).has)
        kept == [j \in 1..Len(idx) |-> [k |-> newMap[idx[j]].k, v |-> choice(idx[j]).v]]
    IN  IF gone THEN <<[k |-> "gone@example.com", v |-> BulkPair]>> \o kept ELSE kept

InitDiff ==
    /\ RunIdle
    /\ HashIdle
    /\ props = NoProps
    /\ storeModule \in StoreModules
    /\ lastSaved = NothingSaved
    /\ newHashMap \in NewMaps
    /\ previousHashMap = << >>
    /\ changed = << >>
    /\ changedEmails = << >>
    /\ diffPc = "input"
    /\ TestIdle
    /\ OverlapIdle
    /\ InputIdle
    /\ SheetIdle
    /\ SteadyIdle
    /\ ListIdle
    /\ UpdateIdle
    /\ ReportIdle
    /\ CleanIdle

\* An earlier run stored its hash map.
DiffSave ==
    /\ diffPc = "input"
    /\ \E c1 \in OldChoices, c2 \in OldChoices, case \in BulkCases, gone \in BOOLEAN :
          LET oldMap == OldMap(newHashMap, c1, c2, case, gone)
          IN  /\ props' = storeGroupSettingsHashMap(oldMap)
              /\ lastSaved' = Saved("storeGroupSettingsHashMap", oldMap)
    /\ diffPc' = "saved"
    /\ UNCHANGED <<hashVars, runVars, storeModule, newHashMap, previousHashMap, changed, changedEmails>>
    /\ UNCHANGED testVars
    /\ UNCHANGED failVars
    /\ UNCHANGED invVars
    /\ UNCHANGED inputVars
    /\ UNCHANGED sheetVars
    /\ UNCHANGED steadyVars
    /\ UNCHANGED listVars
    /\ UNCHANGED updateVars
    /\ UNCHANGED reportVars
    /\ UNCHANGED cleanVars

\* The baseline is loaded and the new map compared with it, by
\* logHashDifferences and by getGroupsWithHashChanges.  Nothing need have
\* been stored before.
DiffRun ==
    /\ diffPc \in {"input", "saved"}
    /\ previousHashMap' = loadGroupSettingsHashMap
    /\ changed' = logHashDifferences(newHashMap, loadGroupSettingsHashMap)
    /\ changedEmails' = getGroupsWithHashChanges(newHashMap)
    /\ diffPc' = "diffed"
    /\ UNCHANGED <<hashVars, runVars, storeVars, newHashMap>>
    /\ UNCHANGED testVars
    /\ UNCHANGED failVars
    /\ UNCHANGED invVars
    /\ UNCHANGED inputVars
    /\ UNCHANGED sheetVars
    /\ UNCHANGED steadyVars
    /\ UNCHANGED listVars
    /\ UNCHANGED updateVars
    /\ UNCHANGED reportVars
    /\ UNCHANGED cleanVars

NextDiff == DiffSave \/ DiffRun

SpecDiff == InitDiff /\ [][NextDiff]_vars

Hashed == hasher \notin {"none", "off"}

\* Same key/value pairs, whatever the insertion order.
SameContent(a, b) ==
    /\ KeySet(a) = KeySet(b)
    /\ \A k \in KeySet(a) : Get(a, k) = Get(b, k)

-----------------------------------------------------------------------------
\* C1: two settings objects holding the same key/value pairs, in whatever
\* insertion order, get the same businessHash and the same fullHash.
C1_OrderIndependent ==
    (Hashed /\ SameContent(settingsA, settingsB)) => pairA = pairB

C1_Witness ==
    /\ Hashed
    /\ SameContent(settingsA, settingsB)
    /\ settingsA # settingsB
    /\ pairA = pairB

\* Every tracked key has the same value (or is missing) in both objects.
AgreeOnTracked(a, b) == \A k \in TrackedKeys : Get(a, k) = Get(b, k)

\* C2: settings objects that agree on every tracked key get the same
\* businessHash, whatever other keys they hold and whatever those are set to.
C2_UntrackedKeysIgnored ==
    (Hashed /\ AgreeOnTracked(settingsA, settingsB))
        => pairA.businessHash = pairB.businessHash

C2_Witness ==
    /\ Hashed
    /\ AgreeOnTracked(settingsA, settingsB)
    /\ KeySet(settingsA) \cap TrackedKeys # {}
    /\ \E k \in (KeySet(settingsA) \cup KeySet(settingsB)) \ (TrackedKeys \cup {"etag"}) :
            Get(settingsA, k) # Get(settingsB, k)
    /\ pairA.businessHash = pairB.businessHash
    /\ pairA.fullHash # pairB.fullHash

\* The objects differ in key k and in nothing else.
DifferOnlyIn(a, b, k) ==
    /\ Get(a, k) # Get(b, k)
    /\ \A j \in (KeySet(a) \cup KeySet(b)) \ {k} : Get(a, j) = Get(b, j)

\* C3: settings objects that differ only in the excluded key etag get the
\* same businessHash and the same fullHash.
C3_ExcludedKeyIgnored ==
    (Hashed /\ DifferOnlyIn(settingsA, settingsB, "etag")) => pairA = pairB

C3_Witness ==
    /\ Hashed
    /\ DifferOnlyIn(settingsA, settingsB, "etag")
    /\ KeySet(settingsA) \ {"etag"} # {}
    /\ pairA = pairB

\* Both objects hold tracked key k, with different values, and are equal in
\* every other key.
TrackedValueChanged(a, b, k) ==
    /\ k \in TrackedKeys
    /\ k \in KeySet(a) \cap KeySet(b)
    /\ DifferOnlyIn(a, b, k)

\* C4: changing the value of one tracked key, everything else being equal,
\* changes the businessHash.
C4_TrackedKeySensitive ==
    (Hashed /\ \E k \in TrackedKeys : TrackedValueChanged(settingsA, settingsB, k))
        => pairA.businessHash # pairB.businessHash

C4_Witness ==
    /\ Hashed
    /\ TrackedValueChanged(settingsA, settingsB, "whoCanJoin")
    /\ Get(settingsA, "whoCanJoin") = Null
    /\ Get(settingsB, "whoCanJoin") = Str("null")
    /\ pairA.businessHash # pairB.businessHash

-----------------------------------------------------------------------------
(* The differ's output, read back.                                         *)

Diffed == diffPc = "diffed"

Lines == {changed[i] : i \in 1..Len(changed)}

Listed == {changedEmails[i] : i \in 1..Len(changedEmails)}

\* Entry i of the new map has no old entry, or one with another hash pair.
EntryDiffers(i) ==
    \/ ~HasKey(previousHashMap, newHashMap[i].k)
    \/ Get(previousHashMap, newHashMap[i].k) # newHashMap[i].v

\* logHashDifferences reaches entry i: fewer than LogLimit of the entries
\* before it differ from the baseline.
ReachedByLog(i) == Cardinality({j \in 1..(i - 1) : EntryDiffers(j)}) < LogLimit

\* The statement of C5 as the spec makes it: every entity of the new map with
\* no old entry is returned as changed and logged with the tag "new".
C5_EveryNewEntityTagged ==
    Diffed =>
        \A i \in 1..Len(newHashMap) :
            ~HasKey(previousHashMap, newHashMap[i].k)
                => /\ newHashMap[i].k \in Listed
                   /\ [email |-> newHashMap[i].k, tag |-> "new"] \in Lines

\* C5 (amended): every entity of the new map with no old entry is returned
\* by getGroupsWithHashChanges, and logHashDifferences logs it with the tag
\* "new" if fewer than 10 differing entries come before it; the log stops
\* at 10 lines.
C5_NewEntityChanged ==
    Diffed =>
        /\ Len(changed) <= LogLimit
        /\ \A i \in 1..Len(newHashMap) :
              ~HasKey(previousHashMap, newHashMap[i].k)
                  => /\ newHashMap[i].k \in Listed
                     /\ ReachedByLog(i)
                          => [email |-> newHashMap[i].k, tag |-> "new"] \in Lines

C5_Witness ==
    /\ Diffed
    /\ previousHashMap = << >>
    /\ Len(newHashMap) = LogLimit
    /\ Len(changedEmails) = LogLimit
    /\ \A i \in 1..Len(newHashMap) :
          [email |-> newHashMap[i].k, tag |-> "new"] \in Lines

\* The stored map holds the entries of the new map and no others.
SameMap(a, b) ==
    /\ KeySet(a) = KeySet(b)
    /\ \A k \in KeySet(a) : Get(a, k) = Get(b, k)

\* C6: a new map compared with a stored map of the same entries yields no
\* change: nothing is logged and no group is returned.
C6_SelfDiffEmpty ==
    (Diffed /\ lastSaved.made /\ SameMap(lastSaved.map, newHashMap))
        => changed = << >> /\ changedEmails = << >>

C6_Witness ==
    /\ Diffed
    /\ lastSaved.made
    /\ SameMap(lastSaved.map, newHashMap)
    /\ Len(newHashMap) >= 3
    /\ newHashMap[1].v # newHashMap[2].v
    /\ changed = << >>
    /\ changedEmails = << >>

TagOf(email) ==
    IF \E l \in Lines : l.email = email
    THEN (CHOOSE l \in Lines : l.email = email).tag
    ELSE ""

-----------------------------------------------------------------------------
(* The run: load, compare, store; the violation check.                     *)

Compared == \E j \in 1..Len(ioLog) : ioLog[j] = "compare"

\* The stored hash map as the previous run left it.
BaselineMap == JSONparseOrEmpty(baseline[HashMapKey])

\* C8: in every run the stored hash map is not written before the comparison
\* of that run is done, and the map the new hashes are compared with is the
\* map the previous run left.
C8_CompareBeforeOverwrite ==
    /\ \A j \in 1..Len(ioLog) :
          ioLog[j] = "compare" => \A i \in 1..j : ioLog[i] # "store"
    /\ (pc \in {"store", "report"} /\ build # "core-app.js")
          => previousHashMap = BaselineMap

\* C9: once a hash map m was saved and the run is over, the load the next
\* run makes returns a map equal to m.
C9_LoadReturnsLastSaved ==
    (pc = "done" /\ outcome = "returned" /\ lastSaved.made)
        => loadGroupSettingsHashMap = lastSaved.map

\* The entry's settings differ from the expected value of some tracked key.
ViolatesPolicy(entry) ==
    \E i \in 1..Len(UPDATED_SETTINGS) :
        Get(entry.settings, UPDATED_SETTINGS[i].k) # UPDATED_SETTINGS[i].v

Reported(email) == \E i \in 1..Len(violations) : violations[i].email = email

\* C10: a run that returns reports every group whose fetched settings differ
\* from the expected values, whether or not its hashes changed.
C10_ViolationReportedEveryRun ==
    (pc = "done" /\ outcome = "returned")
        => \A i \in 1..Len(all) :
              (all[i].hasSettings /\ ViolatesPolicy(all[i])) => Reported(all[i].email)

-----------------------------------------------------------------------------
(* Change detection over a stored map.                                     *)

\* The emails of the sample groups the test changed a setting of.
ModifiedEmails ==
    {sampleGroups[i].email : i \in {j \in 1..Len(sampleGroups) :
                                       modifiedGroups[j].settings # sampleGroups[j].settings}}

-----------------------------------------------------------------------------
(* Storage failures.                                                       *)

\* C12: a run in which a save of the hash map failed does not return as a
\* run without failure does: the failure reaches the caller.
C12_StorageFailureSurfaced ==
    (pc = "done" /\ storageFailed) => outcome = "threw"

-----------------------------------------------------------------------------
(* Overlapping invocations.                                                *)

\* The invocations that are under way.
ActiveInvocations == {p \in Invocations : invPc[p] \in {"fetch", "storing"}}

\* The invocation has loaded the stored map and has its store still to make.
BetweenLoadAndSave(p) ==
    \/ invPc[p] = "storing"
    \/ invPc[p] = "fetch" /\ UsesPart007(build)

\* C13: at most one invocation is under way, and between the load and the
\* save of an invocation the stored hash map is as that invocation read it.
C13_SoleWriter ==
    /\ Cardinality(ActiveInvocations) <= 1
    /\ \A p \in Invocations : BetweenLoadAndSave(p) => props[HashMapKey] = invSeen[p]

\* An invocation between its load and its save finds the stored map written
\* by the other one.
WrittenUnderneath ==
    \E p \in Invocations : BetweenLoadAndSave(p) /\ props[HashMapKey] # invSeen[p]

-----------------------------------------------------------------------------
(* The save is one setProperty of the whole JSON text.                     *)

\* C14: whatever invocations are under way, the stored property is absent or
\* is the whole map the latest save was handed, so that a load returns that
\* map and never a mixture of it and the map stored before.
C14_AtomicReplace ==
    IF lastSaved.made
    THEN /\ props[HashMapKey] = JSONstringifyMap(lastSaved.map)
         /\ loadGroupSettingsHashMap = lastSaved.map
    ELSE props[HashMapKey] = Absent

\* An invocation has stored both groups, and the latest save, made by the
\* other from a stale load, replaced that map by a map of one entry.
C14_Witness ==
    /\ \E p \in Invocations : invPc[p] = "done"
    /\ ~UsesPart007(build)
    /\ lastSaved.made
    /\ Len(lastSaved.map) = 1
    /\ Len(loadGroupSettingsHashMap) = 1

-----------------------------------------------------------------------------
(* A tracked key that is missing, against the same key set to null.        *)

\* b is a with the tracked key k, which a lacks, set to null.
MissingVsNull(a, b, k) ==
    /\ k \in TrackedKeys
    /\ k \notin KeySet(a)
    /\ k \in KeySet(b)
    /\ Get(b, k) = Null
    /\ Delete(b, k) = a

\* C15 as stated: a settings object lacking a tracked key and the same
\* object with the key set to null get different business hashes.
C15_MissingDistinctFromNull ==
    Hashed =>
        \A k \in TrackedKeys :
            MissingVsNull(settingsA, settingsB, k) => pairA.businessHash # pairB.businessHash

\* C15 as the code has it: null is substituted for a missing tracked key, so
\* the object lacking the key and the object with the key set to null get
\* the same business hash; only the full hash tells them apart.
C15_MissingSameAsNull ==
    Hashed =>
        \A k \in TrackedKeys :
            MissingVsNull(settingsA, settingsB, k)
                => /\ pairA.businessHash = pairB.businessHash
                   /\ pairA.fullHash # pairB.fullHash

C15_Witness ==
    /\ Hashed
    /\ \E k \in TrackedKeys : MissingVsNull(settingsA, settingsB, k)
    /\ Len(settingsA) > 0

-----------------------------------------------------------------------------
(* Settings that are empty or not an object.                               *)

\* The input is the empty object or is no object at all.
EmptyOrNonObject == input.t # "object" \/ input.o = << >>

\* C16: handed settings that are empty or not an object, the hasher raises
\* no error and both of its projections are the empty mapping.
C16_MalformedGivesEmptyProjections ==
    (inputResult.done /\ EmptyOrNonObject)
        => /\ ~inputResult.threw
           /\ inputResult.business = << >>
           /\ inputResult.full = << >>

-----------------------------------------------------------------------------
(* Keys that are neither tracked nor excluded.                             *)

ExcludedKeys == {"etag"}

\* a and b hold key k, which is neither tracked nor excluded, with different
\* values, and agree on every other key.
UntrackedValueChanged(a, b, k) ==
    /\ k \notin TrackedKeys \cup ExcludedKeys
    /\ k \in KeySet(a) \cap KeySet(b)
    /\ DifferOnlyIn(a, b, k)

\* C17: changing the value of a key that is neither tracked nor excluded,
\* everything else being equal, changes the fullHash.
C17_FullHashSensitive ==
    (Hashed /\ \E k \in FieldNames : UntrackedValueChanged(settingsA, settingsB, k))
        => pairA.fullHash # pairB.fullHash

\* The name changed, the full hashes differ and the business hashes do not.
C17_Witness ==
    /\ Hashed
    /\ UntrackedValueChanged(settingsA, settingsB, "name")
    /\ Len(settingsA) = 3
    /\ pairA.fullHash # pairB.fullHash
    /\ pairA.businessHash = pairB.businessHash

-----------------------------------------------------------------------------
(* Entities that were removed since the baseline.                          *)

\* The entities of the old map that the new map no longer has.
RemovedEmails == KeySet(previousHashMap) \ KeySet(newHashMap)

\* The ids the differ reports, in its list and in its logged lines.
ReportedEmails == Listed \cup {l.email : l \in Lines}

\* C18: an entity present only in the old map is never reported by the
\* differ, and every id it reports is a key of the new map.
C18_ReportedAreKeysOfNewMap ==
    Diffed => /\ ReportedEmails \subseteq KeySet(newHashMap)
              /\ ReportedEmails \cap RemovedEmails = {}

C18_Witness ==
    /\ Diffed
    /\ RemovedEmails # {}
    /\ Listed # {}
    /\ Lines # {}
    /\ ReportedEmails \subseteq KeySet(newHashMap)

-----------------------------------------------------------------------------
(* What a load returns when nothing is stored.                             *)

\* Nothing is stored under the property the load reads.
NothingStored == ~props[HashMapKey].present

\* C19: in every state a load returns a map, never null or undefined, and
\* the empty map when nothing is stored.
C19_LoadNeverNull ==
    /\ LoadResult(props[HashMapKey]).t = "object"
    /\ NothingStored => LoadResult(props[HashMapKey]).o = << >>

C19_Witness ==
    /\ Diffed
    /\ NothingStored
    /\ newHashMap # << >>
    /\ previousHashMap = LoadResult(props[HashMapKey]).o
    /\ previousHashMap = << >>

-----------------------------------------------------------------------------
(* The Last Modified cell of an entry whose hashes did not change.         *)

HasRow(rows, email) == \E i \in 1..Len(rows) : rows[i][1] = email

RowOf(rows, email) == rows[CHOOSE i \in 1..Len(rows) : rows[i][1] = email]

\* The Last Modified cell of a row: its last cell.
LastModified(row) == row[Len(row)]

\* The entries of the map just written whose hashes equal the stored ones
\* and the ones an earlier write left in the sheet, with its timestamp.
UnchangedEntries ==
    {e \in KeySet(sheetArg) :
        /\ ~HashesDiffer(Get(sheetArg, e),
                         GetOrEmpty(JSONparseOrEmpty(props["GROUP_DUAL_HASH_MAP"]), e))
        /\ HasRow(sheetBefore, e)
        /\ RowOf(sheetBefore, e)[2] = Get(sheetArg, e).businessHash
        /\ RowOf(sheetBefore, e)[3] = Get(sheetArg, e).fullHash
        /\ LastModified(RowOf(sheetBefore, e)) # ""}

\* C20: when the hash map is written to the sheet again with hashes equal to
\* the stored ones, the Last Modified cell of each such entry keeps the value
\* the earlier write gave it.
C20_TimestampKept ==
    (sheetPc \in {"saved", "threw"} /\ sheetRewrite)
        => \A e \in UnchangedEntries :
              /\ HasRow(sheetRows, e)
              /\ LastModified(RowOf(sheetRows, e)) = LastModified(RowOf(sheetBefore, e))

-----------------------------------------------------------------------------
(* Runs that follow one another with nothing changed upstream.             *)

\* The run in hand has ended, it is not the first, and since the first run
\* began no settings changed, no fetch or store failed and no option was set.
SteadyRunEnded == pc = "done" /\ runCount >= 2 /\ steady

\* C21: with nothing changed upstream and no fetch failed, every run from
\* the second on classifies every group as unchanged and reports no hash
\* change.
C21_SteadyStateUnchanged ==
    SteadyRunEnded
        => /\ \A i \in 1..Len(all) : all[i].unchanged
           /\ changed = << >>
           /\ changedEmails = << >>

-----------------------------------------------------------------------------
(* The stored entries of the groups a run did not hash again.              *)

\* The groups the run in hand classified as unchanged or as errored.
NotRehashed == {all[i].email : i \in {j \in 1..Len(all) : all[j].unchanged \/ all[j].error}}

\* The stored entry of a group in a stored map: its pair, or none.
StoredEntry(hashMap, email) ==
    IF HasKey(hashMap, email) THEN <<Get(hashMap, email)>> ELSE << >>

\* C22: when a run has returned, the stored hash pair of every group it
\* classified as unchanged or errored is the pair stored before the run.
C22_UntouchedEntriesKept ==
    (pc = "done" /\ outcome = "returned")
        => \A email \in NotRehashed :
              StoredEntry(loadGroupSettingsHashMap, email) = StoredEntry(BaselineMap, email)

-----------------------------------------------------------------------------
(* The stored domain ETag and the listing it belongs to.                   *)

\* C23: when a call of fetchAllGroupData has ended with the stored domain
\* ETag advanced to a new value, the complete group list was fetched and
\* returned to the caller.
C23_ETagAdvancedOnlyWhenComplete ==
    (listPc = "done" /\ storedDomainETag # etagBefore)
        => /\ listResult.complete
           /\ listResult.groups = groups

-----------------------------------------------------------------------------
(* A run with dryRun set.                                                  *)

\* C24: when a run with dryRun set has ended, the stored hash map is the one
\* stored before the run.
C24_DryRunWritesNothing ==
    (pc = "done" /\ options.dryRun)
        => \A key \in DOMAIN props :
              JSONparseOrEmpty(props[key]) = JSONparseOrEmpty(baseline[key])

-----------------------------------------------------------------------------
(* The PATCH requests and the rows they come from.                         *)

\* The settings of the checked rows: what the user marked to be applied.
CheckedSettings ==
    {<<reportRows[i].email, reportRows[i].key>> :
        i \in {j \in 1..Len(reportRows) : reportRows[j].apply}}

\* The settings the PATCH requests sent carry.
PatchedSettings ==
    UNION {{<<patched[i].email, k>> : k \in KeySet(patched[i].payload)} :
              i \in 1..Len(patched)}

\* C25: a PATCH request is sent only for rows whose apply cell is checked,
\* and only after the user answered YES to the confirmation prompt.
C25_PatchOnlyCheckedAndConfirmed ==
    updatePc = "done"
        => /\ PatchedSettings \subseteq CheckedSettings
           /\ patched # << >> => answer = "YES"

-----------------------------------------------------------------------------
(* The Detail Report after a run.                                          *)

\* C26: after a run of listGroupSettings the Detail Report holds exactly
\* the violations that run found.
C26_ReportHoldsThisRunOnly ==
    (reportPc = "done" /\ updatePc = "idle") => reportRows = runViolations

-----------------------------------------------------------------------------
(* CLEAN_RUN_ACTIVE outside a cleanRun invocation.                         *)

\* C27: whenever no invocation of listGroupSettings is executing, the
\* property CLEAN_RUN_ACTIVE has been deleted, and getOrCreateSheet has never
\* deleted an existing sheet outside an invocation.
C27_CleanRunFlagCleared ==
    cleanPc = "idle" => (~cleanRunActive /\ ~forceDeleted)

====
